---------------------------- MODULE Spec2Model ----------------------------
(***************************************************************************)
(* Model of the research-threshold labeler of src/research_labelling.py:   *)
(* ResearchBasedLabeler.label_case_inefficiencies, its helper              *)
(* _calculate_optimization_potential, the recommendation generator and the *)
(* per-row loop of label_dataset; of the deployment validator of           *)
(* src/aws_bedrock_deployment/deployment_scripts/validate_system.py; and   *)
(* of the feature extractor of src/data_exploration.py.                    *)
(*                                                                         *)
(* The three programs are separate processes that share nothing, so each   *)
(* specification runs one of them (the labeler's main, a function of one   *)
(* row or a loop over one table) and leaves the variables of the others at *)
(* their idle values.                                                      *)
(*                                                                         *)
(* Units.  Durations and approval times are days.  The code's percentages  *)
(* (45.3, 30, 50, 20, 15, cap 80) are kept in TENTHS of a percent (453,    *)
(* 300, 500, 200, 150, cap 800) so that 45.3 stays exact in integers.      *)
(* Day values are whole numbers taken on, just below and just above every  *)
(* number the code compares with; all comparisons are strict, so a         *)
(* fractional value behaves like the whole number just above it.           *)
(***************************************************************************)
EXTENDS Integers, Sequences, FiniteSets, TLC

VARIABLES
    pc,             \* position inside label_dataset's loop body
    case_features,  \* row.to_dict() of the row being processed
    labels,         \* result of label_case_inefficiencies for that row
    labeled_data,   \* the list label_dataset builds and returns
    rpc,            \* position of a generate_optimization_recommendations call
    rec_inefficiencies, \* its argument (inefficiencies)
    recommendations,\* its result
    vpc,            \* position inside validate_system.main
    env,            \* what each external query of the run will answer
    args,           \* the parsed command line (--output, --report)
    results,        \* SystemValidator.results
    phases,         \* the validation phases entered so far, in order
    queries,        \* the external queries issued so far, in order
    config_results, \* what validate_system_configuration returned
    output_files,   \* the files main has written
    exit_code,      \* the status passed to sys.exit
    epc,            \* position of an extract_training_features call
    dataset_name,   \* its argument
    datasets,       \* self.datasets: the event log loaded under each name
    training_data,  \* the feature records it returns
    mpc,            \* position inside research_labelling.main
    store,          \* the files of data/processed, by name
    pending,        \* the feature tables the glob has still to yield
    all_labeled_data \* the list main extends table by table

labelVars == <<pc, case_features, labels, labeled_data>>

recVars == <<rpc, rec_inefficiencies, recommendations>>

valVars ==
    <<vpc, env, args, results, phases, queries, config_results, output_files, exit_code>>

extVars == <<epc, datasets, dataset_name, training_data>>

mainVars == <<mpc, store, pending, all_labeled_data>>

vars == <<labelVars, recVars, valVars, extVars, mainVars>>

-----------------------------------------------------------------------------
(* Python values *)

\* Python's None (an unset local, an absent dictionary value).
None == [kind |-> "None"]

\* float('nan'): what pandas.read_csv yields for an empty approval_time_days cell.
NaN == [kind |-> "NaN"]

Num(n) == [kind |-> "num", val |-> n]

\* Python truthiness of an optional float: None and 0 are falsy, NaN is truthy.
Truthy(x) == x.kind = "NaN" \/ (x.kind = "num" /\ x.val # 0)

\* x > t for an optional float that already passed the truthiness test:
\* every comparison with NaN is False.
GreaterThan(x, t) == x.kind = "num" /\ x.val > t

\* dict.get(key, default)
Get(d, key, default) == IF key \in DOMAIN d THEN d[key] ELSE default

\* The empty dictionary {}.
EmptyDict == [ k \in {} |-> None ]

-----------------------------------------------------------------------------
(* A program that is not run by the specification at hand *)

LabelIdle ==
    /\ pc = "idle"
    /\ case_features = None
    /\ labels = None
    /\ labeled_data = << >>

RecIdle ==
    /\ rpc = "idle"
    /\ rec_inefficiencies = << >>
    /\ recommendations = None

ValIdle ==
    /\ vpc = "idle"
    /\ env = None
    /\ args = None
    /\ results = None
    /\ phases = << >>
    /\ queries = << >>
    /\ config_results = None
    /\ output_files = EmptyDict
    /\ exit_code = None

ExtIdle ==
    /\ epc = "idle"
    /\ dataset_name = None
    /\ datasets = EmptyDict
    /\ training_data = None

MainIdle ==
    /\ mpc = "idle"
    /\ store = EmptyDict
    /\ pending = << >>
    /\ all_labeled_data = << >>

-----------------------------------------------------------------------------
(* ResearchBasedLabeler.__init__ *)

thresholds ==
    [ domestic_normal_duration         |-> 11,
      domestic_excessive_duration      |-> 20,
      international_normal_duration    |-> 86,
      international_excessive_duration |-> 150,
      supervisor_approval_bottleneck   |-> 30,
      director_approval_bottleneck     |-> 45,
      excessive_rejections             |-> 2,
      budget_variance_threshold        |-> 3,    \* 0.3, in tenths
      late_submission_days             |-> 60 ]

framework_mappings ==
    [ supervisor_approval_bottleneck |->
          [ lean_waste      |-> "waiting",
            agile_principle |-> "working_software_over_documentation",
            optimization    |-> "increase_supervisors_or_delegation" ],
      director_approval_bottleneck |->
          [ lean_waste      |-> "waiting",
            agile_principle |-> "responding_to_change",
            optimization    |-> "implement_escalation_rules" ],
      excessive_rejections |->
          [ lean_waste      |-> "defects",
            agile_principle |-> "working_software_over_documentation",
            optimization    |-> "implement_pre_validation_checks" ],
      excessive_duration |->
          [ lean_waste      |-> "waiting",
            agile_principle |-> "deliver_working_software_frequently",
            optimization    |-> "streamline_approval_process" ],
      late_submission |->
          [ lean_waste      |-> "transportation",
            agile_principle |-> "deliver_working_software_frequently",
            optimization    |-> "implement_automated_reminders" ] ]

-----------------------------------------------------------------------------
(* Inputs: feature records around every threshold the labeler compares with *)

Around(t) == {t - 1, t, t + 1}

DurationValues ==
    {0, thresholds.domestic_normal_duration, 25,
     thresholds.international_normal_duration, 220}
        \cup Around(thresholds.domestic_excessive_duration) \cup Around(30)
        \cup Around(thresholds.international_excessive_duration) \cup Around(200)

ApprovalValues ==
    {None, NaN}
        \cup {Num(n) : n \in {-3, 0, 60}
                           \cup Around(thresholds.supervisor_approval_bottleneck)
                           \cup Around(50)}

RejectionValues == 0 .. 4

ActivityValues == {0, 10, 25} \cup Around(20)

Features(id, dur, intl, appr, rej, act) ==
    [ case_id             |-> id,
      total_duration_days |-> dur,
      is_international    |-> intl,
      approval_time_days  |-> appr,
      rejection_count     |-> rej,
      activity_count      |-> act ]

CaseFeatures ==
    { Features(1, dur, intl, appr, rej, act) :
          dur \in DurationValues, intl \in BOOLEAN, appr \in ApprovalValues,
          rej \in RejectionValues, act \in ActivityValues }

-----------------------------------------------------------------------------
(* label_case_inefficiencies, one operator per rule: each yields the       *)
(* findings it appends to `labels` and what it adds to severity_score.     *)

NoFinding == [ labels |-> << >>, severity_score |-> 0 ]

\* Mutant: the duration rule reads the *_normal_duration thresholds (11 / 86).
DurationRule_NormalThreshold(cf) ==
    LET duration == cf.total_duration_days
        limit    == IF cf.is_international
                    THEN thresholds.international_normal_duration
                    ELSE thresholds.domestic_normal_duration
    IN  IF duration > limit
        THEN [ labels |->
                 << [ type                |-> IF cf.is_international
                                              THEN "excessive_duration_international"
                                              ELSE "excessive_duration_domestic",
                      severity            |-> "medium",
                      actual_value        |-> Num(duration),
                      expected_range      |-> "8-11 days",
                      framework_violation |-> framework_mappings.excessive_duration ] >>,
               severity_score |-> 2 ]
        ELSE NoFinding

\* Mutant: the severity comparisons of the duration rule use >= (200 and 30
\* count as high).
DurationRule_InclusiveHigh(cf) ==
    LET duration == cf.total_duration_days
        intl     == cf.is_international
        limit    == IF intl THEN thresholds.international_excessive_duration
                    ELSE thresholds.domestic_excessive_duration
        high     == IF intl THEN duration >= 200 ELSE duration >= 30
    IN  IF duration > limit
        THEN [ labels |->
                 << [ type                |-> IF intl
                                              THEN "excessive_duration_international"
                                              ELSE "excessive_duration_domestic",
                      severity            |-> IF high THEN "high" ELSE "medium",
                      actual_value        |-> Num(duration),
                      expected_range      |-> IF intl THEN "66-86 days" ELSE "8-11 days",
                      framework_violation |-> framework_mappings.excessive_duration ] >>,
               severity_score |-> IF high THEN 3 ELSE 2 ]
        ELSE NoFinding

DurationRule(cf) ==
    LET duration == cf.total_duration_days
    IN  IF cf.is_international
        THEN IF duration > thresholds.international_excessive_duration
             THEN [ labels |->
                      << [ type                |-> "excessive_duration_international",
                           severity            |-> IF duration > 200 THEN "high" ELSE "medium",
                           actual_value        |-> Num(duration),
                           expected_range      |-> "66-86 days",
                           framework_violation |-> framework_mappings.excessive_duration ] >>,
                    severity_score |-> IF duration > 200 THEN 3 ELSE 2 ]
             ELSE NoFinding
        ELSE IF duration > thresholds.domestic_excessive_duration
             THEN [ labels |->
                      << [ type                |-> "excessive_duration_domestic",
                           severity            |-> IF duration > 30 THEN "high" ELSE "medium",
                           actual_value        |-> Num(duration),
                           expected_range      |-> "8-11 days",
                           framework_violation |-> framework_mappings.excessive_duration ] >>,
                    severity_score |-> IF duration > 30 THEN 3 ELSE 2 ]
             ELSE NoFinding

\* Mutant: the approval rule scores like the duration rule (3 if high else 2).
ApprovalRule_ScoreBySeverity(cf) ==
    LET approval_time == cf.approval_time_days
    IN  IF Truthy(approval_time)
           /\ GreaterThan(approval_time, thresholds.supervisor_approval_bottleneck)
        THEN [ labels |->
                 << [ type                |-> "supervisor_approval_bottleneck",
                      severity            |-> IF GreaterThan(approval_time, 50)
                                              THEN "high" ELSE "medium",
                      actual_value        |-> approval_time,
                      expected_value      |-> "3-5 days",
                      research_finding    |-> "39 days average (45.3% of total process time)",
                      framework_violation |->
                          framework_mappings.supervisor_approval_bottleneck ] >>,
               severity_score |-> IF GreaterThan(approval_time, 50) THEN 3 ELSE 2 ]
        ELSE NoFinding

\* Mutant: an approval time above the director threshold is reported too.
ApprovalRule_WithDirector(cf) ==
    LET approval_time == cf.approval_time_days
        supervisor ==
            [ type                |-> "supervisor_approval_bottleneck",
              severity            |-> IF GreaterThan(approval_time, 50)
                                      THEN "high" ELSE "medium",
              actual_value        |-> approval_time,
              expected_value      |-> "3-5 days",
              research_finding    |-> "39 days average (45.3% of total process time)",
              framework_violation |->
                  framework_mappings.supervisor_approval_bottleneck ]
        director ==
            [ type                |-> "director_approval_bottleneck",
              severity            |-> "high",
              actual_value        |-> approval_time,
              framework_violation |-> framework_mappings.director_approval_bottleneck ]
    IN  IF Truthy(approval_time)
           /\ GreaterThan(approval_time, thresholds.supervisor_approval_bottleneck)
        THEN [ labels |->
                 IF GreaterThan(approval_time, thresholds.director_approval_bottleneck)
                 THEN << supervisor, director >> ELSE << supervisor >>,
               severity_score |-> 3 ]
        ELSE NoFinding

ApprovalRule(cf) ==
    LET approval_time == cf.approval_time_days
    IN  IF Truthy(approval_time)
           /\ GreaterThan(approval_time, thresholds.supervisor_approval_bottleneck)
        THEN [ labels |->
                 << [ type                |-> "supervisor_approval_bottleneck",
                      severity            |-> IF GreaterThan(approval_time, 50)
                                              THEN "high" ELSE "medium",
                      actual_value        |-> approval_time,
                      expected_value      |-> "3-5 days",
                      research_finding    |-> "39 days average (45.3% of total process time)",
                      framework_violation |->
                          framework_mappings.supervisor_approval_bottleneck ] >>,
               severity_score |-> 3 ]
        ELSE NoFinding

\* f'{expected_rejection_rate:.0%}' of 0.27 and of 0.12
ExpectedRejectionRate(is_international) == IF is_international THEN "27%" ELSE "12%"

\* f'Normal rejection rate: {expected_rejection_rate:.0%}'
RejectionResearchFinding(is_international) ==
    IF is_international THEN "Normal rejection rate: 27%"
    ELSE "Normal rejection rate: 12%"

\* Mutant: rejection_count >= threshold instead of >.
RejectionRule_Inclusive(cf) ==
    LET rejection_count == cf.rejection_count
    IN  IF rejection_count >= thresholds.excessive_rejections
        THEN [ labels |->
                 << [ type                |-> "excessive_rejections",
                      severity            |-> IF rejection_count > 3 THEN "high" ELSE "medium",
                      actual_value        |-> Num(rejection_count),
                      expected_rate       |-> ExpectedRejectionRate(cf.is_international),
                      research_finding    |-> RejectionResearchFinding(cf.is_international),
                      framework_violation |-> framework_mappings.excessive_rejections ] >>,
               severity_score |-> 2 ]
        ELSE NoFinding

RejectionRule(cf) ==
    LET rejection_count == cf.rejection_count
    IN  IF rejection_count > thresholds.excessive_rejections
        THEN [ labels |->
                 << [ type                |-> "excessive_rejections",
                      severity            |-> IF rejection_count > 3 THEN "high" ELSE "medium",
                      actual_value        |-> Num(rejection_count),
                      expected_rate       |-> ExpectedRejectionRate(cf.is_international),
                      research_finding    |-> RejectionResearchFinding(cf.is_international),
                      framework_violation |-> framework_mappings.excessive_rejections ] >>,
               severity_score |-> 2 ]
        ELSE NoFinding

\* Mutant: the complexity rule is an elif of the rejection rule.
ComplexityRule_Elif(cf) ==
    IF cf.rejection_count <= thresholds.excessive_rejections /\ cf.activity_count > 20
    THEN [ labels |->
             << [ type                |-> "process_complexity",
                  severity            |-> "medium",
                  actual_value        |-> Num(cf.activity_count),
                  expected_range      |-> "8-15 activities",
                  framework_violation |->
                      [ lean_waste      |-> "overprocessing",
                        agile_principle |-> "simplicity",
                        optimization    |-> "consolidate_approval_steps" ] ] >>,
           severity_score |-> 1 ]
    ELSE NoFinding

\* Mutant: the complexity finding adds nothing to severity_score.
ComplexityRule_NoScore(cf) ==
    LET activity_count == cf.activity_count
    IN  IF activity_count > 20
        THEN [ labels |->
                 << [ type                |-> "process_complexity",
                      severity            |-> "medium",
                      actual_value        |-> Num(activity_count),
                      expected_range      |-> "8-15 activities",
                      framework_violation |->
                          [ lean_waste      |-> "overprocessing",
                            agile_principle |-> "simplicity",
                            optimization    |-> "consolidate_approval_steps" ] ] >>,
               severity_score |-> 0 ]
        ELSE NoFinding

ComplexityRule(cf) ==
    LET activity_count == cf.activity_count
    IN  IF activity_count > 20
        THEN [ labels |->
                 << [ type                |-> "process_complexity",
                      severity            |-> "medium",
                      actual_value        |-> Num(activity_count),
                      expected_range      |-> "8-15 activities",
                      framework_violation |->
                          [ lean_waste      |-> "overprocessing",
                            agile_principle |-> "simplicity",
                            optimization    |-> "consolidate_approval_steps" ] ] >>,
               severity_score |-> 1 ]
        ELSE NoFinding

\* Mutant: the domestic and international amounts are swapped.
ImprovementWeight_Swapped(type) ==
    CASE type = "supervisor_approval_bottleneck"   -> 453
      [] type = "excessive_duration_international" -> 500
      [] type = "excessive_duration_domestic"      -> 300
      [] type = "excessive_rejections"             -> 200
      [] type = "process_complexity"               -> 150
      [] OTHER                                     -> 0

\* The per-type amounts of _calculate_optimization_potential's if/elif chain,
\* in tenths of a percent; a type no branch names adds nothing.
ImprovementWeight(type) ==
    CASE type = "supervisor_approval_bottleneck"   -> 453
      [] type = "excessive_duration_international" -> 300
      [] type = "excessive_duration_domestic"      -> 500
      [] type = "excessive_rejections"             -> 200
      [] type = "process_complexity"               -> 150
      [] OTHER                                     -> 0

\* Mutant: improvement_potential = amount instead of += amount.
RECURSIVE AccumulatePotential_Assign(_, _, _)
AccumulatePotential_Assign(inefficiencies, i, acc) ==
    IF i > Len(inefficiencies)
    THEN acc
    ELSE AccumulatePotential_Assign(inefficiencies, i + 1,
                                    ImprovementWeight(inefficiencies[i].type))

\* The for loop of _calculate_optimization_potential: improvement_potential
\* after the findings inefficiencies[i..], entered with the value `acc`.
RECURSIVE AccumulatePotential(_, _, _)
AccumulatePotential(inefficiencies, i, acc) ==
    IF i > Len(inefficiencies)
    THEN acc
    ELSE AccumulatePotential(inefficiencies, i + 1,
                             acc + ImprovementWeight(inefficiencies[i].type))

Min(a, b) == IF a < b THEN a ELSE b

RECURSIVE SumPotential(_, _)
SumPotential(inefficiencies, i) ==
    IF i > Len(inefficiencies) THEN 0
    ELSE ImprovementWeight(inefficiencies[i].type) + SumPotential(inefficiencies, i + 1)

\* Mutant: the final min(..., 80) is dropped.
calculate_optimization_potential_NoCap(inefficiencies, cf) ==
    IF inefficiencies = << >> THEN 0 ELSE SumPotential(inefficiencies, 1)

calculate_optimization_potential(inefficiencies, cf) ==
    IF inefficiencies = << >>
    THEN 0
    ELSE Min(AccumulatePotential(inefficiencies, 1, 0), 800)

\* Mutant: the four rules form one if/elif chain, so only the first that
\* matches appends its finding.
label_case_inefficiencies_FirstOnly(cf) ==
    LET d == DurationRule(cf)
        a == ApprovalRule(cf)
        r == RejectionRule(cf)
        c == ComplexityRule(cf)
        first == IF d.labels # << >> THEN d
                 ELSE IF a.labels # << >> THEN a
                 ELSE IF r.labels # << >> THEN r
                 ELSE c
    IN  [ inefficiencies           |-> first.labels,
          severity_score           |-> first.severity_score,
          total_inefficiency_count |-> Len(first.labels),
          optimization_potential   |->
              IF first.labels = << >> THEN 0
              ELSE Min(ImprovementWeight(first.labels[1].type), 800) ]

label_case_inefficiencies(cf) ==
    LET d == DurationRule(cf)
        a == ApprovalRule(cf)
        r == RejectionRule(cf)
        c == ComplexityRule(cf)
        found == d.labels \o a.labels \o r.labels \o c.labels
    IN  [ inefficiencies           |-> found,
          severity_score           |-> d.severity_score + a.severity_score
                                         + r.severity_score + c.severity_score,
          total_inefficiency_count |-> Len(found),
          optimization_potential   |-> calculate_optimization_potential(found, cf) ]

-----------------------------------------------------------------------------
(* Recommendation generator *)

get_recommendation(inefficiency_type) ==
    CASE inefficiency_type = "supervisor_approval_bottleneck" ->
           "Increase number of supervisors or implement delegation rules. Consider automated pre-approval for low-value requests."
      [] inefficiency_type = "director_approval_bottleneck" ->
           "Implement escalation rules. Director approval should only be required for high-value or high-risk requests."
      [] inefficiency_type = "excessive_rejections" ->
           "Implement pre-validation checks and automated compliance screening before submission."
      [] inefficiency_type = "excessive_duration_international" ->
           "Streamline international approval process. Consider regional approval authorities."
      [] inefficiency_type = "excessive_duration_domestic" ->
           "Implement automated approval for standard domestic travel below threshold amounts."
      [] inefficiency_type = "process_complexity" ->
           "Consolidate approval steps. Remove redundant activities and parallel process where possible."
      [] inefficiency_type = "late_submission" ->
           "Implement automated reminder system and mobile expense reporting capabilities."
      [] OTHER -> "Review and optimize process flow"

\* Mutant: the improvements table has no entry for process_complexity.
get_expected_improvement_NoComplexity(inefficiency_type) ==
    CASE inefficiency_type = "supervisor_approval_bottleneck" ->
           "30-50% reduction in approval time"
      [] inefficiency_type = "director_approval_bottleneck" ->
           "40-60% reduction in high-level approval time"
      [] inefficiency_type = "excessive_rejections" ->
           "2-14 day reduction in rework cycles"
      [] inefficiency_type = "excessive_duration_international" ->
           "20-30% reduction in total process time"
      [] inefficiency_type = "excessive_duration_domestic" ->
           "40-60% reduction in total process time"
      [] inefficiency_type = "late_submission" ->
           "80% reduction in late submissions"
      [] OTHER -> "10-20% general improvement"

get_expected_improvement(inefficiency_type) ==
    CASE inefficiency_type = "supervisor_approval_bottleneck" ->
           "30-50% reduction in approval time"
      [] inefficiency_type = "director_approval_bottleneck" ->
           "40-60% reduction in high-level approval time"
      [] inefficiency_type = "excessive_rejections" ->
           "2-14 day reduction in rework cycles"
      [] inefficiency_type = "excessive_duration_international" ->
           "20-30% reduction in total process time"
      [] inefficiency_type = "excessive_duration_domestic" ->
           "40-60% reduction in total process time"
      [] inefficiency_type = "process_complexity" ->
           "15-25% reduction in administrative overhead"
      [] inefficiency_type = "late_submission" ->
           "80% reduction in late submissions"
      [] OTHER -> "10-20% general improvement"

generate_optimization_recommendations(findings) ==
    [ i \in 1 .. Len(findings) |->
        LET inefficiency_type == findings[i].type
            framework_info    == Get(findings[i], "framework_violation", EmptyDict)
        IN  [ inefficiency_type    |-> inefficiency_type,
              recommendation       |-> get_recommendation(inefficiency_type),
              expected_improvement |-> get_expected_improvement(inefficiency_type),
              framework_basis      |-> Get(framework_info, "optimization",
                                           "general_process_improvement"),
              lean_principle       |-> Get(framework_info, "lean_waste", "unknown"),
              agile_principle      |-> Get(framework_info, "agile_principle", "unknown") ] ]

\* Longest finding list handed to the recommendation generator.
MaxFindings == 2

\* Finding types: the six of the enumeration, late_submission (mapped by both
\* tables, produced by no rule) and two types no table maps.
EnumeratedTypes ==
    { "excessive_duration_domestic", "excessive_duration_international",
      "supervisor_approval_bottleneck", "director_approval_bottleneck",
      "excessive_rejections", "process_complexity" }

FindingTypeInputs ==
    EnumeratedTypes \cup { "late_submission", "budget_variance", "" }

\* A finding as the generator reads it: its type, and a framework_violation
\* that is whole, empty or missing.
FindingInputs ==
    { [ type |-> t ] : t \in FindingTypeInputs }
        \cup { [ type |-> t, framework_violation |-> fv ] :
                   t \in FindingTypeInputs,
                   fv \in { EmptyDict, framework_mappings.excessive_rejections } }

FindingListInputs ==
    UNION { [ 1 .. n -> FindingInputs ] : n \in 0 .. MaxFindings }

InitRecommend ==
    /\ rpc = "call"
    /\ rec_inefficiencies \in FindingListInputs
    /\ recommendations = None
    /\ LabelIdle /\ ValIdle /\ ExtIdle /\ MainIdle

\* recommendations = self.generate_optimization_recommendations(inefficiencies)
Recommend ==
    /\ rpc = "call"
    /\ recommendations' = generate_optimization_recommendations(rec_inefficiencies)
    /\ rpc' = "returned"
    /\ UNCHANGED <<rec_inefficiencies, labelVars, valVars, extVars, mainVars>>

SpecRecommend == InitRecommend /\ [][Recommend]_vars

-----------------------------------------------------------------------------
(* label_dataset *)

\* Mutant: 'high' needs a score above 5.
SeverityLevel_Strict(severity_score) ==
    IF severity_score > 5 THEN "high"
    ELSE IF severity_score >= 2 THEN "medium"
    ELSE "low"

SeverityLevel(severity_score) ==
    IF severity_score >= 5 THEN "high"
    ELSE IF severity_score >= 2 THEN "medium"
    ELSE "low"

\* Mutant: the bottleneck is taken from the end of the list ([-1]).
PrimaryBottleneck_LastFinding(inefficiencies) ==
    IF inefficiencies # << >> THEN inefficiencies[Len(inefficiencies)].type ELSE "None"

\* Python's None is written "None" here: the other values are type names.
PrimaryBottleneck(inefficiencies) ==
    IF inefficiencies # << >> THEN inefficiencies[1].type ELSE "None"

TrainingLabel(lb) ==
    [ has_inefficiencies             |-> Len(lb.inefficiencies) > 0,
      severity_level                 |-> SeverityLevel(lb.severity_score),
      primary_bottleneck             |-> PrimaryBottleneck(lb.inefficiencies),
      optimization_potential_percent |-> lb.optimization_potential ]

LabeledCase(cf, lb) ==
    [ case_id                      |-> cf.case_id,
      input_features               |-> cf,
      inefficiency_labels          |-> lb,
      optimization_recommendations |->
          generate_optimization_recommendations(lb.inefficiencies),
      training_label               |-> TrainingLabel(lb) ]

\* Longest feature table of the dataset specification.
MaxCases == 2

\* Rows of the dataset specification: one value on each side of every rule.
DatasetRows(id) ==
    { Features(id, dur, intl, appr, rej, act) :
          dur \in {10, 25, 220}, intl \in BOOLEAN, appr \in {NaN, Num(60)},
          rej \in {0, 4}, act \in {10, 25} }

\* One labelling of one feature record, every boundary value.
Init ==
    /\ pc = "row"
    /\ case_features \in CaseFeatures
    /\ labels = None
    /\ labeled_data = << >>
    /\ RecIdle /\ ValIdle /\ ExtIdle /\ MainIdle

\* label_dataset entered with a feature table not yet iterated.
InitDataset ==
    /\ pc = "loop"
    /\ case_features = None
    /\ labels = None
    /\ labeled_data = << >>
    /\ RecIdle /\ ValIdle /\ ExtIdle /\ MainIdle

\* for idx, row in features_df.iterrows(): case_features = row.to_dict()
NextRow ==
    /\ pc = "loop"
    /\ Len(labeled_data) < MaxCases
    /\ \E row \in DatasetRows(Len(labeled_data) + 1) : case_features' = row
    /\ labels' = None
    /\ pc' = "row"
    /\ UNCHANGED <<labeled_data, recVars, valVars, extVars, mainVars>>

\* labels = self.label_case_inefficiencies(case_features)
LabelCase ==
    /\ pc = "row"
    /\ labels' = label_case_inefficiencies(case_features)
    /\ pc' = "labeled"
    /\ UNCHANGED <<case_features, labeled_data, recVars, valVars, extVars, mainVars>>

\* recommendations, labeled_case = {...}, labeled_data.append(labeled_case)
AppendCase ==
    /\ pc = "labeled"
    /\ labeled_data' = Append(labeled_data, LabeledCase(case_features, labels))
    /\ pc' = "loop"
    /\ UNCHANGED <<case_features, labels, recVars, valVars, extVars, mainVars>>

\* return labeled_data, once the table is exhausted
Return ==
    /\ pc = "loop"
    /\ pc' = "returned"
    /\ UNCHANGED <<case_features, labels, labeled_data, recVars, valVars, extVars, mainVars>>

Next == LabelCase \/ AppendCase \/ Return

NextDataset == NextRow \/ LabelCase \/ AppendCase \/ Return

Spec == Init /\ [][Next]_vars

SpecDataset == InitDataset /\ [][NextDataset]_vars

-----------------------------------------------------------------------------
(* Properties of the labeler *)

\* The current row has been labelled (labels holds the returned dictionary).
Labelled == pc \in {"labeled", "loop", "returned"} /\ labels # None

FindingTypes(lb) == { lb.inefficiencies[i].type : i \in DOMAIN lb.inefficiencies }

HasFinding(lb, type) == type \in FindingTypes(lb)

FindingOf(lb, type) ==
    lb.inefficiencies[CHOOSE i \in DOMAIN lb.inefficiencies :
                          lb.inefficiencies[i].type = type]

\* approval_time_days holds no number: None in a dictionary, NaN in a table.
Absent(x) == x.kind \in {"None", "NaN"}

\* What the approval, rejection and complexity findings present in a label
\* are stated to add to its severity_score (3, 2, 1).
ScoreOf(lb, type, points) == IF HasFinding(lb, type) THEN points ELSE 0

\* What the duration rule is stated to add: 3 above 200 (30 domestic), 2 above
\* 150 (20 domestic), nothing otherwise.
StatedDurationPoints(cf) ==
    LET dur == cf.total_duration_days
    IN  IF cf.is_international
        THEN (IF dur > 200 THEN 3 ELSE IF dur > 150 THEN 2 ELSE 0)
        ELSE (IF dur > 30 THEN 3 ELSE IF dur > 20 THEN 2 ELSE 0)

\* The largest severity_score the bucket boundaries are checked for.
MaxScore == 12

\* C1: for every feature record the optimization_potential returned by
\* label_case_inefficiencies lies in the closed range 0 to 80 (0..800 tenths).
Thm_C1_PotentialInRange ==
    Labelled => labels.optimization_potential \in 0 .. 800

\* A label whose uncapped sum (110.3) is above the cap.
Wit_C1_Capped ==
    /\ Labelled
    /\ Len(labels.inefficiencies) = 4
    /\ labels.optimization_potential = 800

\* C2: a feature record with no threshold violation yields an empty finding
\* list, severity_score 0 and optimization_potential 0.
NoThresholdViolation(cf) ==
    /\ cf.total_duration_days <= (IF cf.is_international THEN 150 ELSE 20)
    /\ Absent(cf.approval_time_days) \/ cf.approval_time_days.val <= 30
    /\ cf.rejection_count <= 2
    /\ cf.activity_count <= 20

Thm_C2_NoViolationNoFinding ==
    Labelled /\ NoThresholdViolation(case_features)
        => /\ labels.inefficiencies = << >>
           /\ labels.severity_score = 0
           /\ labels.optimization_potential = 0

\* Every feature sits exactly on its threshold.
Wit_C2_OnEveryBoundary ==
    /\ Labelled
    /\ case_features.is_international
    /\ case_features.total_duration_days = 150
    /\ case_features.approval_time_days = Num(30)
    /\ case_features.rejection_count = 2
    /\ case_features.activity_count = 20
    /\ labels.inefficiencies = << >>

\* C3: in every labeled case severity_level is "high" exactly when
\* severity_score >= 5, "medium" exactly when 2 <= severity_score < 5 and
\* "low" otherwise; the same holds of the bucketing for every score 0..MaxScore.
BucketOf(level, score) ==
    /\ level = "high"   <=> score >= 5
    /\ level = "medium" <=> (2 <= score /\ score < 5)
    /\ level = "low"    <=> score < 2

Thm_C3_SeverityLevel ==
    /\ \A i \in DOMAIN labeled_data :
           BucketOf(labeled_data[i].training_label.severity_level,
                    labeled_data[i].inefficiency_labels.severity_score)
    /\ \A score \in 0 .. MaxScore : BucketOf(SeverityLevel(score), score)

\* Two labeled cases on the two sides of the high boundary.
Wit_C3_FourAndFive ==
    /\ Len(labeled_data) = 2
    /\ labeled_data[1].inefficiency_labels.severity_score = 4
    /\ labeled_data[1].training_label.severity_level = "medium"
    /\ labeled_data[2].inefficiency_labels.severity_score = 5
    /\ labeled_data[2].training_label.severity_level = "high"

\* C4: duration rule.  An international case has the finding
\* excessive_duration_international exactly when duration > 150 (high and +3
\* when > 200, else medium and +2); a domestic case has
\* excessive_duration_domestic exactly when duration > 20 (high and +3 when
\* > 30, else medium and +2); neither type appears for the other kind of case.
\* The domestic case of 25 days gets that one finding, medium, score 2,
\* potential 50.
DurationPoints(lb) ==
    lb.severity_score - ScoreOf(lb, "supervisor_approval_bottleneck", 3)
                      - ScoreOf(lb, "excessive_rejections", 2)
                      - ScoreOf(lb, "process_complexity", 1)

DomesticScenario == Features(1, 25, FALSE, None, 0, 10)

Thm_C4_DurationRule ==
    Labelled =>
        LET cf   == case_features
            dur  == cf.total_duration_days
            intl == cf.is_international
            it   == "excessive_duration_international"
            dt   == "excessive_duration_domestic"
        IN  /\ HasFinding(labels, it) <=> (intl /\ dur > 150)
            /\ HasFinding(labels, dt) <=> (~intl /\ dur > 20)
            /\ HasFinding(labels, it) =>
                   /\ FindingOf(labels, it).severity
                          = (IF dur > 200 THEN "high" ELSE "medium")
                   /\ DurationPoints(labels) = (IF dur > 200 THEN 3 ELSE 2)
            /\ HasFinding(labels, dt) =>
                   /\ FindingOf(labels, dt).severity
                          = (IF dur > 30 THEN "high" ELSE "medium")
                   /\ DurationPoints(labels) = (IF dur > 30 THEN 3 ELSE 2)
            /\ ~HasFinding(labels, it) /\ ~HasFinding(labels, dt)
                   => DurationPoints(labels) = 0
            /\ cf = DomesticScenario =>
                   /\ Len(labels.inefficiencies) = 1
                   /\ labels.inefficiencies[1].type = dt
                   /\ labels.inefficiencies[1].severity = "medium"
                   /\ labels.severity_score = 2
                   /\ labels.optimization_potential = 500

\* A domestic case on the boundary 30: a finding, still medium.
Wit_C4_DomesticThirty ==
    /\ Labelled
    /\ ~case_features.is_international
    /\ case_features.total_duration_days = 30
    /\ HasFinding(labels, "excessive_duration_domestic")
    /\ FindingOf(labels, "excessive_duration_domestic").severity = "medium"

\* C5: approval rule.  supervisor_approval_bottleneck is found exactly when
\* approval_time_days is present and > 30; high when > 50, else medium; the
\* score rises by 3 in both cases; absent, zero or negative gives no finding.
Thm_C5_ApprovalRule ==
    Labelled =>
        LET a  == case_features.approval_time_days
            st == "supervisor_approval_bottleneck"
            points == labels.severity_score
                          - ScoreOf(labels, "excessive_rejections", 2)
                          - ScoreOf(labels, "process_complexity", 1)
                          - StatedDurationPoints(case_features)
        IN  /\ HasFinding(labels, st) <=> (~Absent(a) /\ a.val > 30)
            /\ HasFinding(labels, st) =>
                   /\ FindingOf(labels, st).severity
                          = (IF a.val > 50 THEN "high" ELSE "medium")
                   /\ points = 3
            /\ ~HasFinding(labels, st) => points = 0
            /\ Absent(a) \/ a.val <= 0 => ~HasFinding(labels, st)

\* An approval time between 30 and 50: found, medium, and still 3 points.
Wit_C5_MediumBottleneck ==
    /\ Labelled
    /\ case_features.approval_time_days = Num(31)
    /\ HasFinding(labels, "supervisor_approval_bottleneck")
    /\ FindingOf(labels, "supervisor_approval_bottleneck").severity = "medium"
    /\ labels.severity_score = 3

\* C6: rejection rule.  excessive_rejections is found exactly when
\* rejection_count > 2; high when > 3, medium when = 3; the score rises by 2;
\* the expected rate 12% / 27% follows is_international alone.
Thm_C6_RejectionRule ==
    Labelled =>
        LET rej == case_features.rejection_count
            rt  == "excessive_rejections"
            points == labels.severity_score
                          - ScoreOf(labels, "supervisor_approval_bottleneck", 3)
                          - ScoreOf(labels, "process_complexity", 1)
                          - StatedDurationPoints(case_features)
        IN  /\ HasFinding(labels, rt) <=> rej > 2
            /\ HasFinding(labels, rt) =>
                   /\ FindingOf(labels, rt).severity
                          = (IF rej > 3 THEN "high" ELSE "medium")
                   /\ rej = 3 => FindingOf(labels, rt).severity = "medium"
                   /\ points = 2
                   /\ FindingOf(labels, rt).expected_rate
                          = (IF case_features.is_international THEN "27%" ELSE "12%")
            /\ ~HasFinding(labels, rt) => points = 0

\* Exactly three rejections: found, medium.
Wit_C6_ThreeRejections ==
    /\ Labelled
    /\ case_features.rejection_count = 3
    /\ HasFinding(labels, "excessive_rejections")
    /\ FindingOf(labels, "excessive_rejections").severity = "medium"

\* C7: complexity rule.  process_complexity is found exactly when
\* activity_count > 20, always medium, and adds 1 to the score, whether or
\* not the duration, approval and rejection rules fired.
Thm_C7_ComplexityRule ==
    Labelled =>
        LET act == case_features.activity_count
            ct  == "process_complexity"
            points == labels.severity_score
                          - ScoreOf(labels, "supervisor_approval_bottleneck", 3)
                          - ScoreOf(labels, "excessive_rejections", 2)
                          - StatedDurationPoints(case_features)
        IN  /\ HasFinding(labels, ct) <=> act > 20
            /\ HasFinding(labels, ct) =>
                   /\ FindingOf(labels, ct).severity = "medium"
                   /\ points = 1
            /\ ~HasFinding(labels, ct) => points = 0

\* The complexity finding next to the three other findings.
Wit_C7_AfterThreeOthers ==
    /\ Labelled
    /\ case_features.activity_count = 21
    /\ Len(labels.inefficiencies) = 4
    /\ labels.inefficiencies[4].type = "process_complexity"

\* C8: optimization_potential = min(80, sum over the findings of the weight
\* of the finding's type), weights 45.3 / 30 / 50 / 20 / 15, and 0 when there
\* are no findings (tenths of a percent here).
StatedWeight(type) ==
    CASE type = "supervisor_approval_bottleneck"   -> 453
      [] type = "excessive_duration_international" -> 300
      [] type = "excessive_duration_domestic"      -> 500
      [] type = "excessive_rejections"             -> 200
      [] type = "process_complexity"               -> 150

RECURSIVE StatedSum(_, _)
StatedSum(findings, i) ==
    IF i > Len(findings) THEN 0
    ELSE StatedWeight(findings[i].type) + StatedSum(findings, i + 1)

Thm_C8_PotentialIsCappedSum ==
    Labelled =>
        LET total == StatedSum(labels.inefficiencies, 1)
        IN  /\ labels.optimization_potential = (IF total < 800 THEN total ELSE 800)
            /\ labels.inefficiencies = << >> => labels.optimization_potential = 0

\* Two findings whose sum (45.3 + 30 = 75.3) stays under the cap.
Wit_C8_UncappedSum ==
    /\ Labelled
    /\ FindingTypes(labels) = {"excessive_duration_international",
                               "supervisor_approval_bottleneck"}
    /\ labels.optimization_potential = 753

\* C9 as stated: over all labels, one with more findings never has a smaller
\* optimization_potential than one with fewer findings, and the value never
\* exceeds 80.
Cex_C9_MonotoneInCount ==
    \A i, j \in DOMAIN labeled_data :
        LET li == labeled_data[i].inefficiency_labels
            lj == labeled_data[j].inefficiency_labels
        IN  /\ li.optimization_potential <= 800
            /\ Len(li.inefficiencies) > Len(lj.inefficiencies)
                   => li.optimization_potential >= lj.optimization_potential

\* C9 as amended: a label whose finding types include every finding type of
\* another label never has a smaller optimization_potential than that other
\* label, and the value never exceeds 80.
Thm_C9_MonotoneInInclusion ==
    \A i, j \in DOMAIN labeled_data :
        LET li == labeled_data[i].inefficiency_labels
            lj == labeled_data[j].inefficiency_labels
        IN  /\ li.optimization_potential <= 800
            /\ FindingTypes(lj) \subseteq FindingTypes(li)
                   => li.optimization_potential >= lj.optimization_potential

\* Two labels, the second with one finding more than the first and a
\* strictly larger potential.
Wit_C9_OneFindingMore ==
    /\ Len(labeled_data) = 2
    /\ LET l1 == labeled_data[1].inefficiency_labels
           l2 == labeled_data[2].inefficiency_labels
       IN  /\ FindingTypes(l1) = {"excessive_rejections"}
           /\ FindingTypes(l2) = {"excessive_rejections", "process_complexity"}
           /\ l1.optimization_potential = 200
           /\ l2.optimization_potential = 350

\* C10: the international case with duration 220, approval time 60, four
\* rejections and 25 activities gets exactly the four findings
\* excessive_duration_international high, supervisor_approval_bottleneck high,
\* excessive_rejections high, process_complexity medium; severity_score 9,
\* severity_level high, optimization_potential 80 (110.3 capped).
InternationalScenario == Features(1, 220, TRUE, Num(60), 4, 25)

Thm_C10_InternationalScenario ==
    case_features = InternationalScenario =>
        /\ Labelled =>
               /\ [ i \in DOMAIN labels.inefficiencies |->
                      <<labels.inefficiencies[i].type, labels.inefficiencies[i].severity>> ]
                    = << <<"excessive_duration_international", "high">>,
                         <<"supervisor_approval_bottleneck", "high">>,
                         <<"excessive_rejections", "high">>,
                         <<"process_complexity", "medium">> >>
               /\ labels.total_inefficiency_count = 4
               /\ labels.severity_score = 9
               /\ labels.optimization_potential = 800
               /\ StatedSum(labels.inefficiencies, 1) = 1103
        /\ pc \in {"loop", "returned"} =>
               /\ Len(labeled_data) = 1
               /\ labeled_data[1].training_label.severity_level = "high"
               /\ labeled_data[1].training_label.optimization_potential_percent = 800
               /\ labeled_data[1].training_label.has_inefficiencies

\* label_dataset has returned the labeled scenario case.
Wit_C10_ScenarioLabeled ==
    /\ case_features = InternationalScenario
    /\ pc = "returned"
    /\ Len(labeled_data) = 1
    /\ labeled_data[1].inefficiency_labels.severity_score = 9

-----------------------------------------------------------------------------
(* Properties of the recommendation generator *)

Recommended == rpc = "returned"

DefaultRecommendation == "Review and optimize process flow"

DefaultImprovement == "10-20% general improvement"

\* The recommendation at position i answers the finding at position i with
\* texts of its own: not empty, not the defaults, and not those of a finding
\* of another type in the same list.
SpecificTexts(i) ==
    /\ recommendations[i].inefficiency_type = rec_inefficiencies[i].type
    /\ recommendations[i].recommendation \notin {"", DefaultRecommendation}
    /\ recommendations[i].expected_improvement \notin {"", DefaultImprovement}
    /\ \A j \in DOMAIN recommendations :
           rec_inefficiencies[j].type # rec_inefficiencies[i].type
               => /\ recommendations[j].recommendation
                         # recommendations[i].recommendation
                  /\ recommendations[j].expected_improvement
                         # recommendations[i].expected_improvement

DefaultTexts(i) ==
    /\ recommendations[i].inefficiency_type = rec_inefficiencies[i].type
    /\ recommendations[i].recommendation = DefaultRecommendation
    /\ recommendations[i].expected_improvement = DefaultImprovement

\* C11 as stated: the generator returns one recommendation per finding; for
\* each of the six enumerated types the texts are non-empty and specific to
\* the type, and for any other type they are the two defaults.
Cex_C11_DefaultsOutsideTheSix ==
    Recommended =>
        /\ Len(recommendations) = Len(rec_inefficiencies)
        /\ \A i \in DOMAIN recommendations :
               IF rec_inefficiencies[i].type \in EnumeratedTypes
               THEN SpecificTexts(i)
               ELSE DefaultTexts(i)

\* C11 as amended: the same, with late_submission among the types that have
\* texts of their own; every type other than these seven gets the defaults.
Thm_C11_RecommendationTotal ==
    Recommended =>
        /\ Len(recommendations) = Len(rec_inefficiencies)
        /\ \A i \in DOMAIN recommendations :
               IF rec_inefficiencies[i].type \in EnumeratedTypes \cup {"late_submission"}
               THEN SpecificTexts(i)
               ELSE DefaultTexts(i)

\* An enumerated type next to a type no table maps.
Wit_C11_MappedAndUnmapped ==
    /\ Recommended
    /\ Len(recommendations) = 2
    /\ rec_inefficiencies[1].type = "process_complexity"
    /\ recommendations[1].expected_improvement
           = "15-25% reduction in administrative overhead"
    /\ rec_inefficiencies[2].type = "budget_variance"
    /\ recommendations[2].recommendation = DefaultRecommendation

-----------------------------------------------------------------------------
(* Deployment validator: validate_system.py                                *)
(*                                                                         *)
(* Scores.  A category score is a float built from quarters, sixths and    *)
(* thirteenths of 100; it is kept here as a whole number of 1/Pt points.   *)
(* The overall score is the sum of the category scores weighted by 0.25,   *)
(* 0.20, 0.25 and 0.30, i.e. by 5, 4, 5 and 6 twentieths, and is kept as a *)
(* whole number of 1/OverallPt points.  Over every combination of category *)
(* scores the float sum of the code falls on the same side of 60, 80 and   *)
(* 100 as the exact sum.                                                   *)

Pt == 2 * 3 * 13

OverallPt == 20 * Pt

\* dict[key] = value
DictSet(d, key, value) ==
    [ k \in DOMAIN d \cup {key} |-> IF k = key THEN value ELSE d[k] ]

\* sum(1 for v in d.values() if v)
CountTrue(d) == Cardinality({ k \in DOMAIN d : d[k] })

\* SystemValidator.__init__: self.results
InitialResults ==
    [ infrastructure      |-> EmptyDict,
      data_validation     |-> EmptyDict,
      framework_knowledge |-> EmptyDict,
      agent_functionality |-> EmptyDict,
      research_compliance |-> EmptyDict,
      performance_metrics |-> EmptyDict,
      overall_score       |-> 0,
      validation_timestamp |-> "datetime.now().isoformat()" ]

required_tables ==
    << "workflow-processing-state", "agent-performance-metrics",
       "workflow-optimization-results", "system-configuration" >>

training_files ==
    << "training_data/input_agent_training.jsonl",
       "training_data/analysis_agent_training.jsonl",
       "training_data/optimization_agent_training.jsonl",
       "training_data/output_agent_training.jsonl",
       "training_data/combined_training_dataset.jsonl" >>

framework_files ==
    << "framework_knowledge/agile_framework_knowledge.json",
       "framework_knowledge/lean_framework_knowledge.json",
       "framework_knowledge/operating_model_knowledge.json",
       "framework_knowledge/integrated_optimization_rules.json",
       "framework_knowledge/system_prompts.json" >>

validation_files ==
    << "validation_data/validation_cases.json",
       "validation_data/benchmark_examples.json",
       "validation_data/university_test_data.json" >>

required_configs ==
    << "thresholds.max_processing_time", "quality.minimum_quality_score",
       "features.multi_agent_enabled", "bedrock.model_id" >>

Range(seq) == { seq[i] : i \in DOMAIN seq }

AllFiles == training_files \o framework_files \o validation_files

\* One external query: the client operation and what it is asked about.
Query(op, target) == <<op, target>>

-----------------------------------------------------------------------------
(* validate_infrastructure *)

\* describe_table inside its try: True only for an answer with status ACTIVE;
\* any other status and a raised exception both record False.
TableActive(answer) == answer = "ACTIVE"

\* The for loop over required_tables, from table i on.
RECURSIVE CheckTables(_, _, _)
CheckTables(e, i, acc) ==
    IF i > Len(required_tables)
    THEN acc
    ELSE CheckTables(e, i + 1,
                     DictSet(acc, required_tables[i],
                             TableActive(e.describe_table[required_tables[i]])))

validate_infrastructure(e) ==
    [ s3_bucket       |-> e.head_bucket = "ok",
      dynamodb_tables |-> CheckTables(e, 1, EmptyDict),
      iam_roles       |-> FALSE,
      bedrock_access  |-> e.list_foundation_models = "claude" ]

InfrastructureQueries ==
    << Query("head_bucket", "workflow-optimization-data") >>
        \o [ i \in DOMAIN required_tables |-> Query("describe_table", required_tables[i]) ]
        \o << Query("list_foundation_models", "bedrock") >>

-----------------------------------------------------------------------------
(* validate_data_completeness *)

\* head_object inside its try; of the metadata only the size is kept.
HeadObject(e, file_path) ==
    IF file_path \in e.head_object
    THEN [ exists |-> TRUE, size |-> "ContentLength" ]
    ELSE [ exists |-> FALSE, error |-> "str(e)" ]

\* Mutant: one try around the whole loop, so the first failed query ends it.
RECURSIVE CheckFiles_StopAtFailure(_, _, _, _)
CheckFiles_StopAtFailure(e, files, i, acc) ==
    IF i > Len(files) \/ files[i] \notin e.head_object
    THEN acc
    ELSE CheckFiles_StopAtFailure(e, files, i + 1,
                                  DictSet(acc, files[i], HeadObject(e, files[i])))

\* One of the three for loops over a list of keys, from key i on.
RECURSIVE CheckFiles(_, _, _, _)
CheckFiles(e, files, i, acc) ==
    IF i > Len(files)
    THEN acc
    ELSE CheckFiles(e, files, i + 1,
                    DictSet(acc, files[i], HeadObject(e, files[i])))

\* sum(1 for f in d.values() if f.get('exists', False))
CountExisting(d) == Cardinality({ k \in DOMAIN d : Get(d[k], "exists", FALSE) })

validate_data_completeness(e) ==
    LET training   == CheckFiles(e, training_files, 1, EmptyDict)
        framework  == CheckFiles(e, framework_files, 1, EmptyDict)
        validation == CheckFiles(e, validation_files, 1, EmptyDict)
        total_files    == Len(training_files) + Len(framework_files)
                              + Len(validation_files)
        existing_files == CountExisting(training) + CountExisting(framework)
                              + CountExisting(validation)
    IN  [ training_data       |-> training,
          framework_knowledge |-> framework,
          validation_data     |-> validation,
          data_quality_score  |-> (existing_files * 100 * Pt) \div total_files ]

\* The head_object queries a finished data check has issued: one per key it
\* holds an entry for, in list order.
DataQueries(data_results) ==
    LET queried(files, d) ==
            SelectSeq([ i \in DOMAIN files |-> Query("head_object", files[i]) ],
                      LAMBDA q : q[2] \in DOMAIN d)
    IN  queried(training_files, data_results.training_data)
            \o queried(framework_files, data_results.framework_knowledge)
            \o queried(validation_files, data_results.validation_data)

-----------------------------------------------------------------------------
(* validate_framework_knowledge *)

\* get_object followed by json.loads raised (no such key, no permission, or
\* a body that is not JSON).
Failed(answer) == answer.kind # "ok"

\* A JSON document is a dictionary; a list value is kept as its length.
AgileSummary(agile_data) ==
    [ core_values_count     |-> Get(agile_data, "core_values", 0),
      principles_count      |-> Get(agile_data, "twelve_principles", 0),
      detection_rules_count |-> Get(agile_data, "agile_detection_rules", 0),
      valid_structure       |-> /\ "core_values" \in DOMAIN agile_data
                                /\ "twelve_principles" \in DOMAIN agile_data ]

LeanSummary(lean_data) ==
    [ seven_wastes_count    |-> Get(lean_data, "seven_wastes", 0),
      principles_count      |-> Get(lean_data, "five_lean_principles", 0),
      detection_rules_count |-> Get(lean_data, "lean_waste_detection_rules", 0),
      valid_structure       |-> /\ "seven_wastes" \in DOMAIN lean_data
                                /\ "five_lean_principles" \in DOMAIN lean_data ]

OperatingModelSummary(om_data) ==
    [ mckinsey_elements_count |->
          Get(Get(om_data, "mckinsey_organize_to_value", EmptyDict), "elements", 0),
      violations_count |-> Get(om_data, "operating_model_violations", 0),
      patterns_count   |-> Get(om_data, "optimization_patterns", 0),
      valid_structure  |-> "mckinsey_organize_to_value" \in DOMAIN om_data ]

IntegrationSummary(integration_data) ==
    [ optimization_recommendations_count |->
          Get(integration_data, "integrated_optimization_recommendations", 0),
      synergies_count |-> Get(integration_data, "framework_synergies", 0),
      detection_framework_exists |->
          "comprehensive_detection_framework" \in DOMAIN integration_data,
      valid_structure |->
          "integrated_optimization_recommendations" \in DOMAIN integration_data ]

\* The four fetches of validate_framework_knowledge, in program order.
FrameworkSites == << "fw_agile", "fw_lean", "fw_operating_model", "fw_integration" >>

FrameworkKeys ==
    << "framework_knowledge/agile_framework_knowledge.json",
       "framework_knowledge/lean_framework_knowledge.json",
       "framework_knowledge/operating_model_knowledge.json",
       "framework_knowledge/integrated_optimization_rules.json" >>

\* Position of the first fetch of `sites` that raises, 0 when none does.
FirstFailure(e, sites) ==
    IF \E i \in DOMAIN sites : Failed(e.get_object[sites[i]])
    THEN CHOOSE i \in DOMAIN sites :
             /\ Failed(e.get_object[sites[i]])
             /\ \A j \in 1 .. i - 1 : ~Failed(e.get_object[sites[j]])
    ELSE 0

\* sum(criteria) for a list of booleans
SumTrue(criteria) == Cardinality({ i \in DOMAIN criteria : criteria[i] })

CompletenessCriteria(fr) ==
    << fr.agile_framework.core_values_count = 4,
       fr.agile_framework.principles_count = 12,
       fr.lean_framework.seven_wastes_count = 7,
       fr.lean_framework.principles_count = 5,
       fr.operating_model.mckinsey_elements_count = 5,
       fr.integration_rules.optimization_recommendations_count >= 5 >>

validate_framework_knowledge(e) ==
    LET f == FirstFailure(e, FrameworkSites)
        reached(i) == f = 0 \/ f > i
        data(i) == e.get_object[FrameworkSites[i]].data
        filled ==
            [ agile_framework  |-> IF reached(1) THEN AgileSummary(data(1))
                                   ELSE EmptyDict,
              lean_framework   |-> IF reached(2) THEN LeanSummary(data(2))
                                   ELSE EmptyDict,
              operating_model  |-> IF reached(3) THEN OperatingModelSummary(data(3))
                                   ELSE EmptyDict,
              integration_rules |-> IF reached(4) THEN IntegrationSummary(data(4))
                                    ELSE EmptyDict ]
    IN  IF f = 0
        THEN [ agile_framework   |-> filled.agile_framework,
               lean_framework    |-> filled.lean_framework,
               operating_model   |-> filled.operating_model,
               integration_rules |-> filled.integration_rules,
               knowledge_completeness_score |->
                   (SumTrue(CompletenessCriteria(filled)) * 100 * Pt)
                       \div Len(CompletenessCriteria(filled)) ]
        ELSE [ agile_framework   |-> filled.agile_framework,
               lean_framework    |-> filled.lean_framework,
               operating_model   |-> filled.operating_model,
               integration_rules |-> filled.integration_rules,
               knowledge_completeness_score |-> 0,
               validation_error  |-> "str(e)" ]

\* Mutant: a fetch that raises is tried once more before the phase gives up.
FetchQueries_Retry(e, sites, keys) ==
    LET f == FirstFailure(e, sites)
        n == IF f = 0 THEN Len(sites) ELSE f
    IN  [ i \in 1 .. n |-> Query("get_object", keys[i]) ]
            \o (IF f = 0 THEN << >> ELSE << Query("get_object", keys[f]) >>)

\* The get_object queries issued: every fetch up to and including the first
\* that raises.
FetchQueries(e, sites, keys) ==
    LET f == FirstFailure(e, sites)
        n == IF f = 0 THEN Len(sites) ELSE f
    IN  [ i \in 1 .. n |-> Query("get_object", keys[i]) ]

-----------------------------------------------------------------------------
(* validate_research_compliance *)

ResearchSites == << "rc_benchmark", "rc_agile" >>

ResearchKeys ==
    << "validation_data/benchmark_examples.json",
       "framework_knowledge/agile_framework_knowledge.json" >>

BenchmarkSummary(benchmark_data) ==
    [ domestic_cycle_time_benchmark          |-> "8-11 days",
      international_cycle_time_benchmark     |-> "66-86 days",
      domestic_rejection_rate_benchmark      |-> "12%",
      international_rejection_rate_benchmark |-> "27%",
      benchmarks_implemented |->
          "bpi_challenge_alignment"
              \in DOMAIN Get(benchmark_data, "research_validation", EmptyDict) ]

CitationSummary(agile_data) ==
    [ agile_source_cited      |-> "source" \in DOMAIN Get(agile_data, "metadata", EmptyDict),
      lean_methodology_basis  |-> "Toyota Production System referenced",
      operating_model_sources |-> "McKinsey framework referenced",
      academic_sources_count  |-> 3 ]

\* Mutant: the multi-framework criterion is not met.
methodology_rigor_SingleFramework ==
    [ multi_framework_approach |-> FALSE,
      integrated_analysis      |-> TRUE,
      empirical_thresholds     |-> TRUE,
      reproducible_methods     |-> TRUE,
      validation_test_cases    |-> TRUE ]

methodology_rigor ==
    [ multi_framework_approach |-> TRUE,
      integrated_analysis      |-> TRUE,
      empirical_thresholds     |-> TRUE,
      reproducible_methods     |-> TRUE,
      validation_test_cases    |-> TRUE ]

empirical_validation ==
    [ research_based_thresholds     |-> TRUE,
      published_benchmark_alignment |-> TRUE,
      statistical_validation        |-> TRUE,
      academic_standard_compliance  |-> TRUE ]

validate_research_compliance(e) ==
    LET f == FirstFailure(e, ResearchSites)
        data(i) == e.get_object[ResearchSites[i]].data
    IN  IF f = 0
        THEN LET bpi       == BenchmarkSummary(data(1))
                 citations == CitationSummary(data(2))
                 compliance_criteria ==
                     << bpi.benchmarks_implemented,
                        citations.agile_source_cited,
                        methodology_rigor.multi_framework_approach,
                        empirical_validation.research_based_thresholds >>
             IN  [ bpi_challenge_benchmarks |-> bpi,
                   framework_citations      |-> citations,
                   methodology_rigor        |-> methodology_rigor,
                   empirical_validation     |-> empirical_validation,
                   compliance_score         |->
                       (SumTrue(compliance_criteria) * 100 * Pt)
                           \div Len(compliance_criteria) ]
        ELSE [ bpi_challenge_benchmarks |-> IF f > 1 THEN BenchmarkSummary(data(1))
                                            ELSE EmptyDict,
               framework_citations      |-> EmptyDict,
               methodology_rigor        |-> EmptyDict,
               empirical_validation     |-> EmptyDict,
               compliance_score         |-> 0,
               validation_error         |-> "str(e)" ]

-----------------------------------------------------------------------------
(* validate_system_configuration *)

\* The scan answers with the rows of the table (kept as the set of their
\* "category.key" names) or raises.
validate_system_configuration(e) ==
    IF e.scan.kind = "ok"
    THEN LET items   == e.scan.items
             missing == SelectSeq(required_configs, LAMBDA cfg : cfg \notin items)
         IN  [ configuration_items |->
                   [ name \in items |->
                       [ value |-> "config_value", data_type |-> "string",
                         environment |-> "unknown" ] ],
               valid_settings |-> TRUE,
               configuration_completeness |->
                   ((Len(required_configs) - Len(missing)) * 100 * Pt)
                       \div Len(required_configs),
               missing_configurations |-> missing ]
    ELSE [ configuration_items        |-> EmptyDict,
           valid_settings             |-> FALSE,
           configuration_completeness |-> 0,
           validation_error           |-> "str(e)" ]

-----------------------------------------------------------------------------
(* calculate_overall_score *)

\* Mutant: the model-access check adds nothing to the infrastructure score.
InfrastructureScore_NoBedrock(infra) ==
    (IF Get(infra, "s3_bucket", FALSE) THEN 25 * Pt ELSE 0)
        + (CountTrue(Get(infra, "dynamodb_tables", EmptyDict)) * 50 * Pt) \div 4

InfrastructureScore(infra) ==
    (IF Get(infra, "s3_bucket", FALSE) THEN 25 * Pt ELSE 0)
        + (CountTrue(Get(infra, "dynamodb_tables", EmptyDict)) * 50 * Pt) \div 4
        + (IF Get(infra, "bedrock_access", FALSE) THEN 25 * Pt ELSE 0)

\* Mutant: research compliance weighs a quarter like the two before it.
Scores_ResearchQuarter(res) ==
    << << "Infrastructure",
          InfrastructureScore(Get(res, "infrastructure", EmptyDict)), 5 >>,
       << "Data Quality",
          Get(Get(res, "data_validation", EmptyDict), "data_quality_score", 0), 4 >>,
       << "Framework Knowledge",
          Get(Get(res, "framework_knowledge", EmptyDict),
              "knowledge_completeness_score", 0), 5 >>,
       << "Research Compliance",
          Get(Get(res, "research_compliance", EmptyDict), "compliance_score", 0), 5 >> >>

\* The (name, score, weight) list; the weights are in twentieths.
Scores(res) ==
    << << "Infrastructure",
          InfrastructureScore(Get(res, "infrastructure", EmptyDict)), 5 >>,
       << "Data Quality",
          Get(Get(res, "data_validation", EmptyDict), "data_quality_score", 0), 4 >>,
       << "Framework Knowledge",
          Get(Get(res, "framework_knowledge", EmptyDict),
              "knowledge_completeness_score", 0), 5 >>,
       << "Research Compliance",
          Get(Get(res, "research_compliance", EmptyDict), "compliance_score", 0), 6 >> >>

\* sum(score * weight for name, score, weight in scores), in 1/OverallPt.
RECURSIVE WeightedSum(_, _)
WeightedSum(scores, i) ==
    IF i > Len(scores) THEN 0
    ELSE scores[i][2] * scores[i][3] + WeightedSum(scores, i + 1)

\* The results document after calculate_overall_score; the value returned is
\* its overall_score.
calculate_overall_score(res) ==
    LET scores == Scores(res)
    IN  DictSet(DictSet(res, "overall_score", WeightedSum(scores, 1)),
                "component_scores",
                [ name \in { scores[i][1] : i \in DOMAIN scores } |->
                    LET i == CHOOSE i \in DOMAIN scores : scores[i][1] = name
                    IN  scores[i][2] ])

-----------------------------------------------------------------------------
(* generate_validation_report and main *)

ComponentStatus(score) ==
    IF score >= 80 * Pt THEN "PASS"
    ELSE IF score >= 60 * Pt THEN "WARNING"
    ELSE "FAIL"

Readiness(overall_score) ==
    IF overall_score >= 90 * OverallPt
    THEN "System ready for production deployment and research use"
    ELSE IF overall_score >= 80 * OverallPt
    THEN "System ready with minor optimizations recommended"
    ELSE IF overall_score >= 70 * OverallPt
    THEN "Address identified issues before production deployment"
    ELSE "Significant issues require resolution before deployment"

\* The report text, kept as the values it prints; `res` is the results
\* document after the call of calculate_overall_score that opens the method.
generate_validation_report(res) ==
    [ overall_score    |-> res.overall_score,
      component_status |-> [ name \in DOMAIN res.component_scores |->
                               ComponentStatus(res.component_scores[name]) ],
      readiness        |-> Readiness(res.overall_score) ]

\* Mutant: the warning tier starts above 60 (overall_score > 60).
ExitCode_StrictWarning(overall_score) ==
    IF overall_score >= 80 * OverallPt THEN 0
    ELSE IF overall_score > 60 * OverallPt THEN 1
    ELSE 2

\* Lines 572-578 of main.
ExitCode(overall_score) ==
    IF overall_score >= 80 * OverallPt THEN 0
    ELSE IF overall_score >= 60 * OverallPt THEN 1
    ELSE 2

-----------------------------------------------------------------------------
(* What the external services answer *)

Missing == [ kind |-> "missing" ]

Unparsable == [ kind |-> "unparsable" ]

Ok(data) == [ kind |-> "ok", data |-> data ]

\* A document that is fetched and parsed and is a JSON array, not an object:
\* the first .get on it raises AttributeError inside the try of the phase.
NotAnObject == [ kind |-> "array" ]

With(d, present, key, value) == IF present THEN DictSet(d, key, value) ELSE d

\* Documents: a count of -1 stands for a key the document does not hold.
AgileDoc(core_values, twelve_principles, source) ==
    With(With(With(DictSet(EmptyDict, "agile_detection_rules", 3),
                   core_values >= 0, "core_values", core_values),
              twelve_principles >= 0, "twelve_principles", twelve_principles),
         TRUE, "metadata",
         IF source THEN [ source |-> "Agile Manifesto" ] ELSE [ version |-> "1.0" ])

LeanDoc(seven_wastes, five_lean_principles) ==
    With(With(DictSet(EmptyDict, "lean_waste_detection_rules", 7),
              seven_wastes >= 0, "seven_wastes", seven_wastes),
         five_lean_principles >= 0, "five_lean_principles", five_lean_principles)

OperatingModelDoc(elements) ==
    With(DictSet(EmptyDict, "operating_model_violations", 2),
         elements >= 0, "mckinsey_organize_to_value", [ elements |-> elements ])

IntegrationDoc(recommendations_count) ==
    With(DictSet(EmptyDict, "framework_synergies", 3),
         recommendations_count >= 0,
         "integrated_optimization_recommendations", recommendations_count)

BenchmarkDoc(research_validation, alignment) ==
    With(DictSet(EmptyDict, "examples", 2),
         research_validation, "research_validation",
         IF alignment THEN [ bpi_challenge_alignment |-> TRUE ]
         ELSE [ notes |-> "none" ])

GoodEnv ==
    [ head_bucket            |-> "ok",
      describe_table         |-> [ t \in Range(required_tables) |-> "ACTIVE" ],
      list_foundation_models |-> "claude",
      head_object            |-> Range(AllFiles),
      get_object             |->
          [ fw_agile           |-> Ok(AgileDoc(4, 12, TRUE)),
            fw_lean            |-> Ok(LeanDoc(7, 5)),
            fw_operating_model |-> Ok(OperatingModelDoc(5)),
            fw_integration     |-> Ok(IntegrationDoc(5)),
            rc_benchmark       |-> Ok(BenchmarkDoc(TRUE, TRUE)),
            rc_agile           |-> Ok(AgileDoc(4, 12, TRUE)) ],
      scan                   |-> [ kind |-> "ok", items |-> Range(required_configs) ] ]

\* Every service down, every object and row missing.
BadEnv ==
    [ head_bucket            |-> "error",
      describe_table         |-> [ t \in Range(required_tables) |-> "error" ],
      list_foundation_models |-> "error",
      head_object            |-> {},
      get_object             |->
          [ site \in Range(FrameworkSites) \cup Range(ResearchSites) |-> Missing ],
      scan                   |-> [ kind |-> "error" ] ]

\* An environment that differs from GoodEnv in the infrastructure answers.
EnvInfrastructure ==
    { [ GoodEnv EXCEPT !.head_bucket = b, !.describe_table = t,
                       !.list_foundation_models = m ] :
          b \in {"ok", "error"},
          t \in [ Range(required_tables) -> {"ACTIVE", "CREATING", "error"} ],
          m \in {"claude", "other", "error"} }

\* ... in the set of objects the bucket holds.
EnvObjects ==
    { [ GoodEnv EXCEPT !.head_object = held ] : held \in SUBSET Range(AllFiles) }

\* ... in the four framework documents.
EnvFramework ==
    { [ GoodEnv EXCEPT !.get_object =
            [ @ EXCEPT !.fw_agile = a, !.fw_lean = l,
                       !.fw_operating_model = o, !.fw_integration = i ] ] :
          a \in { Missing, Unparsable }
                   \cup { Ok(AgileDoc(cv, tp, TRUE)) : cv \in {-1, 3, 4}, tp \in {-1, 12} },
          l \in { Missing, Unparsable }
                   \cup { Ok(LeanDoc(sw, fp)) : sw \in {6, 7}, fp \in {-1, 5} },
          o \in { Missing, Unparsable }
                   \cup { Ok(OperatingModelDoc(n)) : n \in {-1, 4, 5} },
          i \in { Missing, Unparsable }
                   \cup { Ok(IntegrationDoc(n)) : n \in {-1, 4, 5, 6} } }

\* ... in the two documents of the research check.
EnvResearch ==
    { [ GoodEnv EXCEPT !.get_object = [ @ EXCEPT !.rc_benchmark = b, !.rc_agile = a ] ] :
          b \in { Missing, Unparsable, NotAnObject, Ok(BenchmarkDoc(FALSE, FALSE)),
                   Ok(BenchmarkDoc(TRUE, FALSE)), Ok(BenchmarkDoc(TRUE, TRUE)) },
          a \in { Missing, Unparsable, NotAnObject,
                   Ok(AgileDoc(4, 12, FALSE)), Ok(AgileDoc(4, 12, TRUE)) } }

\* ... in the rows of the configuration table.
EnvConfiguration ==
    { [ GoodEnv EXCEPT !.scan = [ kind |-> "error" ] ] }
        \cup { [ GoodEnv EXCEPT !.scan = [ kind |-> "ok", items |-> rows ] ] :
                   rows \in SUBSET Range(required_configs) }

\* Environments that spread all four category scores at once: the first n
\* tables active (the scan of the fourth, system-configuration, fails while
\* that table is not), the first k objects held, the first c completeness
\* criteria met (7 for a failed fetch), r of the two variable research
\* criteria met (3 for a failed fetch).
DataLevels == {0, 1, 6, 7, 12, 13}

Prefix(seq, n) == { seq[i] : i \in 1 .. n }

FrameworkLevel(c) ==
    [ fw_agile           |-> Ok(AgileDoc(IF c >= 1 THEN 4 ELSE 3,
                                         IF c >= 2 THEN 12 ELSE -1, TRUE)),
      fw_lean            |-> IF c = 7 THEN Missing
                             ELSE Ok(LeanDoc(IF c >= 3 THEN 7 ELSE 6,
                                             IF c >= 4 THEN 5 ELSE -1)),
      fw_operating_model |-> Ok(OperatingModelDoc(IF c >= 5 THEN 5 ELSE 4)),
      fw_integration     |-> Ok(IntegrationDoc(IF c >= 6 THEN 5 ELSE 4)) ]

ResearchLevel(r) ==
    [ rc_benchmark |-> IF r = 3 THEN Unparsable ELSE Ok(BenchmarkDoc(TRUE, r >= 1)),
      rc_agile     |-> Ok(AgileDoc(4, 12, r >= 2)) ]

EnvScores ==
    { [ head_bucket            |-> b,
        describe_table         |->
            [ t \in Range(required_tables) |->
                IF t \in Prefix(required_tables, n) THEN "ACTIVE" ELSE "error" ],
        list_foundation_models |-> m,
        head_object            |-> Prefix(AllFiles, k),
        get_object             |->
            [ site \in Range(FrameworkSites) \cup Range(ResearchSites) |->
                IF site \in Range(FrameworkSites)
                THEN FrameworkLevel(c)[site] ELSE ResearchLevel(r)[site] ],
        scan                   |-> IF n = Len(required_tables) THEN GoodEnv.scan
                                   ELSE [ kind |-> "error" ] ] :
          b \in {"ok", "error"}, n \in 0 .. 4, m \in {"claude", "error"},
          k \in DataLevels, c \in 0 .. 7, r \in 0 .. 3 }

EnvValidate ==
    EnvScores \cup EnvInfrastructure \cup EnvFramework \cup EnvResearch
        \cup EnvConfiguration \cup { GoodEnv, BadEnv }

Args == [ output : BOOLEAN, report : BOOLEAN ]

-----------------------------------------------------------------------------
(* run_full_validation and main as a state machine.  One action per phase;  *)
(* vpc names the statement about to run.                                     *)

\* The five validate_* calls of run_full_validation, in program order.
ValidationPhases ==
    << "infrastructure", "data_completeness", "framework_knowledge",
       "research_compliance", "system_configuration" >>

PhaseOrder == ValidationPhases \o << "overall_score" >>

\* SystemValidator(...) has been constructed and run_full_validation entered.
ValidatorStarted(envs, flags) ==
    /\ vpc = "infrastructure"
    /\ env \in envs
    /\ args \in flags
    /\ results = InitialResults
    /\ phases = << >>
    /\ queries = << >>
    /\ config_results = None
    /\ output_files = EmptyDict
    /\ exit_code = None

InitValidate ==
    /\ ValidatorStarted(EnvValidate, Args)
    /\ LabelIdle /\ RecIdle /\ ExtIdle /\ MainIdle

ValidateInfrastructure ==
    /\ vpc = "infrastructure"
    /\ results' = [ results EXCEPT !.infrastructure = validate_infrastructure(env) ]
    /\ phases' = Append(phases, "infrastructure")
    /\ queries' = queries \o InfrastructureQueries
    /\ vpc' = "data_completeness"
    /\ UNCHANGED <<env, args, config_results, output_files, exit_code>>
    /\ UNCHANGED <<labelVars, recVars, extVars, mainVars>>

ValidateDataCompleteness ==
    /\ vpc = "data_completeness"
    /\ results' = [ results EXCEPT !.data_validation = validate_data_completeness(env) ]
    /\ phases' = Append(phases, "data_completeness")
    /\ queries' = queries \o DataQueries(results'.data_validation)
    /\ vpc' = "framework_knowledge"
    /\ UNCHANGED <<env, args, config_results, output_files, exit_code>>
    /\ UNCHANGED <<labelVars, recVars, extVars, mainVars>>

ValidateFrameworkKnowledge ==
    /\ vpc = "framework_knowledge"
    /\ results' = [ results EXCEPT
                      !.framework_knowledge = validate_framework_knowledge(env) ]
    /\ phases' = Append(phases, "framework_knowledge")
    /\ queries' = queries \o FetchQueries(env, FrameworkSites, FrameworkKeys)
    /\ vpc' = "research_compliance"
    /\ UNCHANGED <<env, args, config_results, output_files, exit_code>>
    /\ UNCHANGED <<labelVars, recVars, extVars, mainVars>>

ValidateResearchCompliance ==
    /\ vpc = "research_compliance"
    /\ results' = [ results EXCEPT
                      !.research_compliance = validate_research_compliance(env) ]
    /\ phases' = Append(phases, "research_compliance")
    /\ queries' = queries \o FetchQueries(env, ResearchSites, ResearchKeys)
    /\ vpc' = "system_configuration"
    /\ UNCHANGED <<env, args, config_results, output_files, exit_code>>
    /\ UNCHANGED <<labelVars, recVars, extVars, mainVars>>

\* Mutant: a failed scan is raised out of the phase and ends the validation.
ValidateSystemConfiguration_AbortOnError ==
    /\ vpc = "system_configuration"
    /\ phases' = Append(phases, "system_configuration")
    /\ queries' = Append(queries, Query("scan", "system-configuration"))
    /\ IF env.scan.kind = "ok"
       THEN /\ config_results' = validate_system_configuration(env)
            /\ vpc' = "overall_score"
            /\ UNCHANGED results
       ELSE /\ results' = DictSet(results, "validation_error", "str(e)")
            /\ vpc' = "returned"
            /\ UNCHANGED config_results
    /\ UNCHANGED <<env, args, output_files, exit_code>>
    /\ UNCHANGED <<labelVars, recVars, extVars, mainVars>>

\* Mutant: the value returned is stored in the results document
\* (self.results['system_configuration'] = ...).
ValidateSystemConfiguration_Stored ==
    /\ vpc = "system_configuration"
    /\ config_results' = validate_system_configuration(env)
    /\ results' = DictSet(results, "system_configuration", config_results')
    /\ phases' = Append(phases, "system_configuration")
    /\ queries' = Append(queries, Query("scan", "system-configuration"))
    /\ vpc' = "overall_score"
    /\ UNCHANGED <<env, args, output_files, exit_code>>
    /\ UNCHANGED <<labelVars, recVars, extVars, mainVars>>

\* The value returned is dropped by run_full_validation: self.results is not
\* touched.
ValidateSystemConfiguration ==
    /\ vpc = "system_configuration"
    /\ config_results' = validate_system_configuration(env)
    /\ phases' = Append(phases, "system_configuration")
    /\ queries' = Append(queries, Query("scan", "system-configuration"))
    /\ vpc' = "overall_score"
    /\ UNCHANGED <<env, args, results, output_files, exit_code>>
    /\ UNCHANGED <<labelVars, recVars, extVars, mainVars>>

\* overall_score = self.calculate_overall_score(); return self.results
CalculateOverallScore ==
    /\ vpc = "overall_score"
    /\ results' = calculate_overall_score(results)
    /\ phases' = Append(phases, "overall_score")
    /\ vpc' = "returned"
    /\ UNCHANGED <<env, args, queries, config_results, output_files, exit_code>>
    /\ UNCHANGED <<labelVars, recVars, extVars, mainVars>>

\* except Exception as e, for an exception raised out of the phase vpc names
\* (one no try of the phase catches): the phase was entered, it stored
\* nothing, the rest of the try block is skipped.
Escape ==
    /\ vpc \in Range(ValidationPhases)
    /\ results' = DictSet(results, "validation_error", "str(e)")
    /\ phases' = Append(phases, vpc)
    /\ vpc' = "returned"
    /\ UNCHANGED <<env, args, queries, config_results, output_files, exit_code>>
    /\ UNCHANGED <<labelVars, recVars, extVars, mainVars>>

\* main, lines 556-559: json.dump(results, f) when --output is given.
WriteOutput ==
    /\ vpc = "returned"
    /\ output_files' = IF args.output
                       THEN DictSet(output_files, "results.json", results)
                       ELSE output_files
    /\ vpc' = "report"
    /\ UNCHANGED <<env, args, results, phases, queries, config_results, exit_code>>
    /\ UNCHANGED <<labelVars, recVars, extVars, mainVars>>

\* main, lines 561-569.  `results` in main is the validator's own dictionary,
\* so the score recomputed by generate_validation_report shows in it.
GenerateReport ==
    /\ vpc = "report"
    /\ IF args.report
       THEN /\ results' = calculate_overall_score(results)
            /\ output_files' =
                   LET printed == DictSet(output_files, "stdout",
                                          generate_validation_report(results'))
                   IN  IF args.output
                       THEN DictSet(printed, "results_report.txt",
                                    generate_validation_report(results'))
                       ELSE printed
       ELSE UNCHANGED <<results, output_files>>
    /\ vpc' = "exit"
    /\ UNCHANGED <<env, args, phases, queries, config_results, exit_code>>
    /\ UNCHANGED <<labelVars, recVars, extVars, mainVars>>

\* main, lines 571-578.
Exit ==
    /\ vpc = "exit"
    /\ exit_code' = ExitCode(Get(results, "overall_score", 0))
    /\ vpc' = "exited"
    /\ UNCHANGED <<env, args, results, phases, queries, config_results, output_files>>
    /\ UNCHANGED <<labelVars, recVars, extVars, mainVars>>

NextValidate ==
    \/ ValidateInfrastructure
    \/ ValidateDataCompleteness
    \/ ValidateFrameworkKnowledge
    \/ ValidateResearchCompliance
    \/ ValidateSystemConfiguration
    \/ CalculateOverallScore
    \/ WriteOutput
    \/ GenerateReport
    \/ Exit

\* The validator when every exception is one of a failed query, which the
\* phases catch themselves.
SpecValidate == InitValidate /\ [][NextValidate]_vars

\* One table still being created, one whose status query fails.
MixedTables ==
    [ t \in Range(required_tables) |->
        IF t = required_tables[2] THEN "CREATING"
        ELSE IF t = required_tables[3] THEN "error"
        ELSE "ACTIVE" ]

EnvData ==
    { [ o EXCEPT !.describe_table = t ] :
          o \in EnvObjects,
          t \in { GoodEnv.describe_table, MixedTables, BadEnv.describe_table } }
        \cup EnvInfrastructure

\* The infrastructure and data checks alone, over every set of objects the
\* bucket may hold and every answer of the table queries.
InitData ==
    /\ ValidatorStarted(EnvData, { [ output |-> FALSE, report |-> FALSE ] })
    /\ LabelIdle /\ RecIdle /\ ExtIdle /\ MainIdle

NextData ==
    \/ ValidateInfrastructure
    \/ ValidateDataCompleteness

SpecData == InitData /\ [][NextData]_vars

\* The validator when, besides, an exception may be raised out of any of the
\* five phases.
InitEscape ==
    /\ ValidatorStarted(EnvResearch \cup EnvConfiguration \cup { GoodEnv, BadEnv },
                        Args)
    /\ LabelIdle /\ RecIdle /\ ExtIdle /\ MainIdle

NextEscape ==
    \/ NextValidate
    \/ Escape

SpecEscape == InitEscape /\ [][NextEscape]_vars

-----------------------------------------------------------------------------
(* Properties of the validator *)

\* run_full_validation has returned after computing the overall score.
Computed ==
    /\ vpc \in {"returned", "report", "exit", "exited"}
    /\ "component_scores" \in DOMAIN results

ActiveTables ==
    Cardinality({ t \in Range(required_tables) : env.describe_table[t] = "ACTIVE" })

\* 25 for the bucket + 50 * active tables / 4 + 25 for model access.
StatedInfrastructure ==
    (IF env.head_bucket = "ok" THEN 25 * Pt ELSE 0)
        + (50 * Pt * ActiveTables) \div 4
        + (IF env.list_foundation_models = "claude" THEN 25 * Pt ELSE 0)

\* C12: for every combination of check outcomes the overall score is
\* 0.25 * infrastructure + 0.20 * data quality + 0.25 * framework-knowledge
\* completeness + 0.30 * research compliance; each category score is within
\* 0..100, the infrastructure score being 25 for the bucket + 50 * active
\* tables / 4 + 25 for model access; so the overall score is within 0..100.
Thm_C12_WeightedOverallScore ==
    Computed =>
        LET c == results.component_scores
        IN  /\ c["Infrastructure"] = StatedInfrastructure
            /\ c["Data Quality"] = results.data_validation.data_quality_score
            /\ c["Framework Knowledge"] =
                   results.framework_knowledge.knowledge_completeness_score
            /\ c["Research Compliance"] = results.research_compliance.compliance_score
            /\ \A name \in DOMAIN c : c[name] \in 0 .. 100 * Pt
            /\ 100 * results.overall_score =
                   20 * (25 * c["Infrastructure"] + 20 * c["Data Quality"]
                         + 25 * c["Framework Knowledge"]
                         + 30 * c["Research Compliance"])
            /\ results.overall_score \in 0 .. 100 * OverallPt

\* Four partial category scores, all different, have been combined.
Wit_C12_FourPartialScores ==
    /\ Computed
    /\ LET c == results.component_scores
       IN  /\ \A name \in DOMAIN c : c[name] > 0 /\ c[name] < 100 * Pt
           /\ Cardinality({ c[name] : name \in DOMAIN c }) = 4
           /\ env.head_bucket = "ok" /\ ActiveTables = 3
           /\ env.list_foundation_models # "claude"

Exited == vpc = "exited"

\* The overall score as the specification states it, from the category scores
\* the four phases recorded, in 1/OverallPt points.
StatedOverall ==
    5 * StatedInfrastructure
        + 4 * results.data_validation.data_quality_score
        + 5 * results.framework_knowledge.knowledge_completeness_score
        + 6 * results.research_compliance.compliance_score

\* C13: the entry point exits with status 0 exactly when the overall score is
\* at least 80, with status 1 exactly when it is at least 60 and below 80,
\* and with status 2 otherwise, whatever --output and --report are.
Thm_C13_ExitStatus ==
    Exited =>
        /\ results.overall_score = StatedOverall
        /\ exit_code = 0 <=> StatedOverall >= 80 * OverallPt
        /\ exit_code = 1 <=> /\ StatedOverall >= 60 * OverallPt
                             /\ StatedOverall < 80 * OverallPt
        /\ exit_code = 2 <=> StatedOverall < 60 * OverallPt
        /\ exit_code \in {0, 1, 2}

\* A run that wrote both files and scored exactly 60 has exited with 1.
Wit_C13_ExactlySixty ==
    /\ Exited
    /\ exit_code = 1
    /\ StatedOverall = 60 * OverallPt
    /\ args.output /\ args.report
    /\ DOMAIN output_files = {"results.json", "stdout", "results_report.txt"}

\* seq is an initial part of full.
IsPrefix(seq, full) ==
    /\ Len(seq) <= Len(full)
    /\ \A i \in DOMAIN seq : seq[i] = full[i]

Queried(op, target) == \E i \in DOMAIN queries : queries[i] = Query(op, target)

\* Every answer one category depends on is the good one.
InfrastructureAnswersGood ==
    /\ env.head_bucket = "ok"
    /\ ActiveTables = Len(required_tables)
    /\ env.list_foundation_models = "claude"

DataAnswersGood == env.head_object = Range(AllFiles)

FrameworkAnswersGood ==
    \A i \in DOMAIN FrameworkSites :
        env.get_object[FrameworkSites[i]] = GoodEnv.get_object[FrameworkSites[i]]

ResearchAnswersGood ==
    \A i \in DOMAIN ResearchSites :
        env.get_object[ResearchSites[i]] = GoodEnv.get_object[ResearchSites[i]]

\* C14: whatever external queries fail, run_full_validation does not abort:
\* the phases run in the order infrastructure, data completeness, framework
\* knowledge, research compliance, system configuration, each issuing its
\* queries, then the overall score is computed; a failed check lowers only
\* the score of its own category, so a category whose own answers are all
\* good scores 100.
Thm_C14_NeverAborts ==
    /\ IsPrefix(phases, PhaseOrder)
    /\ "validation_error" \notin DOMAIN results
    /\ vpc \in {"returned", "report", "exit", "exited"} =>
           /\ phases = PhaseOrder
           /\ Computed
           /\ Queried("head_bucket", "workflow-optimization-data")
           /\ \A t \in Range(required_tables) : Queried("describe_table", t)
           /\ Queried("list_foundation_models", "bedrock")
           /\ \A f \in Range(AllFiles) : Queried("head_object", f)
           /\ Queried("get_object", FrameworkKeys[1])
           /\ Queried("get_object", ResearchKeys[1])
           /\ Queried("scan", "system-configuration")
           /\ LET c == results.component_scores
              IN  /\ InfrastructureAnswersGood => c["Infrastructure"] = 100 * Pt
                  /\ DataAnswersGood => c["Data Quality"] = 100 * Pt
                  /\ FrameworkAnswersGood => c["Framework Knowledge"] = 100 * Pt
                  /\ ResearchAnswersGood => c["Research Compliance"] = 100 * Pt

\* Queries failed in three phases and the scan failed too; the run still
\* reached the score, and research compliance, untouched, scores 100.
Wit_C14_FailuresInThreePhases ==
    /\ Computed
    /\ phases = PhaseOrder
    /\ env.scan.kind # "ok"
    /\ "validation_error" \in DOMAIN config_results
    /\ env.head_bucket # "ok"
    /\ env.head_object # Range(AllFiles)
    /\ Failed(env.get_object.fw_lean)
    /\ ResearchAnswersGood
    /\ results.component_scores["Research Compliance"] = 100 * Pt
    /\ results.component_scores["Infrastructure"] < 100 * Pt

AllChecksGood ==
    /\ InfrastructureAnswersGood
    /\ results.data_validation.data_quality_score = 100 * Pt
    /\ results.framework_knowledge.knowledge_completeness_score = 100 * Pt
    /\ results.research_compliance.compliance_score = 100 * Pt

AllChecksAbsent ==
    /\ env.head_bucket # "ok"
    /\ ActiveTables = 0
    /\ env.list_foundation_models # "claude"
    /\ env.head_object = {}
    /\ \A site \in DOMAIN env.get_object : Failed(env.get_object[site])

\* C15: when the bucket is present, all four tables are ACTIVE, model access
\* is found and data quality, framework knowledge and research compliance are
\* each 100, the overall score is exactly 100 and the exit code 0; when every
\* check is absent or fails, the overall score is 0 and the exit code 2.
Thm_C15_BestAndWorst ==
    Exited =>
        /\ AllChecksGood => results.overall_score = 100 * OverallPt /\ exit_code = 0
        /\ AllChecksAbsent => results.overall_score = 0 /\ exit_code = 2

Wit_C15_AllGoodExited ==
    /\ Exited
    /\ AllChecksGood
    /\ exit_code = 0

DataChecked == "data_quality_score" \in DOMAIN results.data_validation

\* The entry the data check recorded for one expected object.
FileEntry(f) ==
    LET d == results.data_validation
    IN  IF f \in Range(training_files) THEN d.training_data[f]
        ELSE IF f \in Range(framework_files) THEN d.framework_knowledge[f]
        ELSE d.validation_data[f]

ObjectsFound == Cardinality(env.head_object \cap Range(AllFiles))

HeadObjectQueries ==
    Cardinality({ i \in DOMAIN queries : queries[i][1] = "head_object" })

\* C16: in validate_data_completeness each of the 13 expected objects whose
\* existence query fails is recorded with exists = False, the remaining
\* objects are still queried, and data_quality_score = 100 * found / 13, so
\* each missing object takes 100/13 off the score; and a table whose status
\* query fails or whose status is not ACTIVE is recorded as False.
Thm_C16_MissingObjectsAndTables ==
    /\ DataChecked =>
           /\ Len(AllFiles) = 13
           /\ \A f \in Range(AllFiles) :
                  /\ Queried("head_object", f)
                  /\ FileEntry(f).exists <=> f \in env.head_object
           /\ HeadObjectQueries = 13
           /\ 13 * results.data_validation.data_quality_score
                  = 100 * Pt * ObjectsFound
           /\ results.data_validation.data_quality_score
                  = 100 * Pt - (13 - ObjectsFound) * ((100 * Pt) \div 13)
    /\ results.infrastructure # EmptyDict =>
           \A t \in Range(required_tables) :
               /\ t \in DOMAIN results.infrastructure.dynamodb_tables
               /\ env.describe_table[t] # "ACTIVE" =>
                      ~results.infrastructure.dynamodb_tables[t]
               /\ env.describe_table[t] = "ACTIVE" =>
                      results.infrastructure.dynamodb_tables[t]

\* The first object of each list is missing and the last of each is found,
\* one table is being created and the status query of another failed.
Wit_C16_MissingThenFound ==
    /\ DataChecked
    /\ \A files \in {training_files, framework_files, validation_files} :
           /\ ~FileEntry(files[1]).exists
           /\ "error" \in DOMAIN FileEntry(files[1])
           /\ FileEntry(files[Len(files)]).exists
    /\ ObjectsFound = 10
    /\ env.describe_table = MixedTables
    /\ CountTrue(results.infrastructure.dynamodb_tables) = 2

FrameworkChecked ==
    "knowledge_completeness_score" \in DOMAIN results.framework_knowledge

Count(p) == IF p THEN 1 ELSE 0

\* How many of the six completeness criteria the document answered at a
\* fetch meets; none when it is missing or unparsable.
CriteriaMetBy(site) ==
    LET answer == env.get_object[site]
    IN  IF Failed(answer) THEN 0
        ELSE IF site = "fw_agile"
        THEN Count(Get(answer.data, "core_values", 0) = 4)
                 + Count(Get(answer.data, "twelve_principles", 0) = 12)
        ELSE IF site = "fw_lean"
        THEN Count(Get(answer.data, "seven_wastes", 0) = 7)
                 + Count(Get(answer.data, "five_lean_principles", 0) = 5)
        ELSE IF site = "fw_operating_model"
        THEN Count(Get(Get(answer.data, "mckinsey_organize_to_value", EmptyDict),
                       "elements", 0) = 5)
        ELSE Count(Get(answer.data, "integrated_optimization_recommendations", 0) >= 5)

\* C17: in validate_framework_knowledge a missing or unparsable document
\* takes away only its own contribution: knowledge_completeness_score is
\* 100 * (criteria met by the documents that were fetched and parsed) / 6.
\* The code does not do this: one failed fetch leaves the score at 0.
Cex_C17_OtherDocumentsStillCount ==
    FrameworkChecked =>
        6 * results.framework_knowledge.knowledge_completeness_score
            = 100 * Pt * ( CriteriaMetBy("fw_agile") + CriteriaMetBy("fw_lean")
                           + CriteriaMetBy("fw_operating_model")
                           + CriteriaMetBy("fw_integration") )

Escaped == "validation_error" \in DOMAIN results

\* C18: an exception escaping a phase of run_full_validation is caught at
\* the outermost scope and recorded under validation_error, the process goes
\* on to its exit, and the exit code is non-zero with and without --report.
\* The code does not keep the last part: with --report the score is computed
\* anew from the phases that had finished, and the exit code follows it.
Cex_C18_EscapeGivesNonZeroExit ==
    /\ vpc = "returned" /\ phases # PhaseOrder => Escaped
    /\ Exited /\ Escaped => exit_code \in {1, 2}

-----------------------------------------------------------------------------
(* Feature extractor: data_exploration.py                                   *)
(*                                                                           *)
(* A string is the tuple of its characters, so that `in`, str.contains and   *)
(* lower() are computed and letter case is real.  An event is a row of the   *)
(* data frame: its case id, activity name and timestamp; timestamps are in   *)
(* whole days, so (max - min).total_seconds() / 86400 is their difference.   *)
(* The two list columns activities_sequence and timestamps are not kept: the *)
(* order sort_values gives to events of equal timestamp is left open, and no *)
(* other column depends on it.                                               *)

Lowercase ==
    << "a", "b", "c", "d", "e", "f", "g", "h", "i", "j", "k", "l", "m",
       "n", "o", "p", "q", "r", "s", "t", "u", "v", "w", "x", "y", "z" >>

Uppercase ==
    << "A", "B", "C", "D", "E", "F", "G", "H", "I", "J", "K", "L", "M",
       "N", "O", "P", "Q", "R", "S", "T", "U", "V", "W", "X", "Y", "Z" >>

Swap(ch, from, to) ==
    IF \E i \in DOMAIN from : from[i] = ch
    THEN to[CHOOSE i \in DOMAIN from : from[i] = ch]
    ELSE ch

\* str.lower()
Lower(s) == [ i \in DOMAIN s |-> Swap(s[i], Uppercase, Lowercase) ]

\* needle in s
Contains(needle, s) ==
    \E i \in 0 .. Len(s) - Len(needle) : SubSeq(s, i + 1, i + Len(needle)) = needle

\* Series.str.contains(pat, na=False, case=False) for a pattern of letters.
ContainsIgnoreCase(pat, s) == Contains(Lower(pat), Lower(s))

REJECT == << "R", "E", "J", "E", "C", "T" >>

SUBMITTED == << "S", "U", "B", "M", "I", "T", "T", "E", "D" >>

APPROVED == << "A", "P", "P", "R", "O", "V", "E", "D" >>

international ==
    << "i", "n", "t", "e", "r", "n", "a", "t", "i", "o", "n", "a", "l" >>

\* Two keys of xes_files.
international_declarations ==
    international \o << "_", "d", "e", "c", "l", "a", "r", "a", "t", "i", "o", "n", "s" >>

prepaid_travel ==
    << "p", "r", "e", "p", "a", "i", "d", "_", "t", "r", "a", "v", "e", "l" >>

\* Activity names: the upper-case words of the BPI logs after a subject, a
\* lower-case spelling, and a declined request.
ActivityNames ==
    { << "D", " " >> \o SUBMITTED,
      << "D", " " >> \o APPROVED,
      << "D", " " >> \o REJECT \o << "E", "D" >>,
      << "D", " ", "r", "e", "j", "e", "c", "t", "e", "d" >>,
      << "R", " ", "D", "E", "C", "L", "I", "N", "E", "D" >> }

Timestamps == { 1, 4 }

MaxEvents == 3

\* The second case is kept to two of the names.
SecondCaseNames ==
    { << "D", " " >> \o SUBMITTED, << "D", " " >> \o REJECT \o << "E", "D" >> }

Events ==
    [ case : {"case 1"}, name : ActivityNames, ts : Timestamps ]
        \cup [ case : {"case 2"}, name : SecondCaseNames, ts : Timestamps ]

\* Event logs of 1 .. n rows, in any order of cases and timestamps.
Logs(n) == UNION { [ 1 .. len -> Events ] : len \in 1 .. n }

SetMax(S) == CHOOSE x \in S : \A y \in S : y <= x

SetMin(S) == CHOOSE x \in S : \A y \in S : x <= y

\* Mutant: only a value equal to the one just before it is dropped.
Unique_Adjacent(column) ==
    SelectSeq([ i \in DOMAIN column |->
                  IF i > 1 /\ column[i - 1] = column[i]
                  THEN << >> ELSE << column[i] >> ],
              LAMBDA x : x # << >>)

\* Series.unique(): the distinct values in order of first appearance.
Unique(column) ==
    SelectSeq([ i \in DOMAIN column |->
                  IF \E j \in 1 .. i - 1 : column[j] = column[i]
                  THEN << >> ELSE << column[i] >> ],
              LAMBDA x : x # << >>)

\* Mutant: .iloc[0] of the rows in input order, the sort left out.
FirstTimestamp_InputOrder(rows) == rows[1].ts

\* The timestamp at .iloc[0] of rows sorted by timestamp.
FirstTimestamp(rows) == SetMin({ rows[i].ts : i \in DOMAIN rows })

\* Lines 129-155: the features of one case.
CaseRecord(df, case_id, name) ==
    LET case_events == SelectSeq(df, LAMBDA e : e.case = case_id)
        timestamp   == { case_events[i].ts : i \in DOMAIN case_events }
        submitted_events ==
            SelectSeq(case_events, LAMBDA e : ContainsIgnoreCase(SUBMITTED, e.name))
        approved_events ==
            SelectSeq(case_events, LAMBDA e : ContainsIgnoreCase(APPROVED, e.name))
    IN  [ case_id             |-> case_id,
          total_duration_days |-> SetMax(timestamp) - SetMin(timestamp),
          activity_count      |-> Len(case_events),
          unique_activities   |->
              Cardinality({ case_events[i].name : i \in DOMAIN case_events }),
          has_rejections      |->
              \E i \in DOMAIN case_events : Contains(REJECT, case_events[i].name),
          rejection_count     |->
              Cardinality({ i \in DOMAIN case_events :
                              Contains(REJECT, case_events[i].name) }),
          is_international    |-> Contains(international, Lower(name)),
          approval_time_days  |->
              IF Len(submitted_events) > 0 /\ Len(approved_events) > 0
              THEN Num(FirstTimestamp(approved_events)
                           - FirstTimestamp(submitted_events))
              ELSE None ]

\* The data frame pm4py.convert_to_dataframe gives for a log: its rows, and
\* whether it carries the case, activity and timestamp columns.  A frame of
\* at least one event carries them.  For a log without events the library,
\* which is not part of the source, decides: a frame built from no events has
\* no columns, a frame emptied by a filter keeps them.
Frame(rows) == [ columns |-> TRUE, rows |-> rows ]

EmptyFrames == { [ columns |-> c, rows |-> << >> ] : c \in BOOLEAN }

\* Lines 123-128 raise: no try surrounds them, here or in main.
Raises(loaded, name) == name \in DOMAIN loaded /\ ~loaded[name].columns

\* The rows of the returned data frame, or None, or the exception raised.
extract_training_features(loaded, name) ==
    IF name \notin DOMAIN loaded
    THEN None
    ELSE IF Raises(loaded, name)
    THEN [ kind |-> "raise", error |-> "KeyError: 'case:concept:name'" ]
    ELSE LET df    == loaded[name].rows
             cases == Unique([ i \in DOMAIN df |-> df[i].case ])
         IN  [ k \in DOMAIN cases |-> CaseRecord(df, cases[k][1], name) ]

\* A BPIDataExplorer holding at most one loaded dataset is asked for the
\* features of a dataset: the international one with any log, or the prepaid
\* one with a shorter log, a log without events, or none loaded.
InitExtract ==
    /\ epc = "start"
    /\ \/ /\ dataset_name = international_declarations
          /\ \E log \in Logs(MaxEvents) : datasets = (dataset_name :> Frame(log))
       \/ /\ dataset_name = prepaid_travel
          /\ \/ \E log \in Logs(MaxEvents - 1) :
                    datasets = (dataset_name :> Frame(log))
             \/ \E frame \in EmptyFrames : datasets = (dataset_name :> frame)
             \/ datasets = EmptyDict
    /\ training_data = None
    /\ LabelIdle /\ RecIdle /\ ValIdle /\ MainIdle

Extract ==
    /\ epc = "start"
    /\ training_data' = extract_training_features(datasets, dataset_name)
    /\ epc' = IF Raises(datasets, dataset_name) THEN "raised" ELSE "returned"
    /\ UNCHANGED <<datasets, dataset_name>>
    /\ UNCHANGED <<labelVars, recVars, valVars, mainVars>>

SpecExtract == InitExtract /\ [][Extract]_vars

-----------------------------------------------------------------------------
(* Properties of the feature extractor *)

Extracted == epc = "returned" /\ dataset_name \in DOMAIN datasets

\* The rows of the data frame the extractor was given.
InputRows == datasets[dataset_name].rows

RowsOf(case_id) == { i \in DOMAIN InputRows : InputRows[i].case = case_id }

InputCases == { InputRows[i].case : i \in DOMAIN InputRows }

\* C19: for every loaded event log extract_training_features yields exactly
\* one record per distinct case identifier, with total_duration_days = latest
\* minus earliest timestamp of the case (hence >= 0), activity_count = number
\* of events of the case and unique_activities = number of distinct activity
\* names, so that 1 <= unique_activities <= activity_count.
Thm_C19_OneRecordPerCase ==
    Extracted =>
        /\ Len(training_data) = Cardinality(InputCases)
        /\ \A case_id \in InputCases :
               \E k \in DOMAIN training_data : training_data[k].case_id = case_id
        /\ \A k \in DOMAIN training_data :
               LET rec == training_data[k]
                   rows == RowsOf(rec.case_id)
               IN  /\ rows # {}
                   /\ \E i, j \in rows :
                          /\ \A m \in rows : /\ InputRows[m].ts <= InputRows[i].ts
                                             /\ InputRows[m].ts >= InputRows[j].ts
                          /\ rec.total_duration_days = InputRows[i].ts - InputRows[j].ts
                   /\ rec.total_duration_days >= 0
                   /\ rec.activity_count = Cardinality(rows)
                   /\ rec.unique_activities =
                          Cardinality({ InputRows[i].name : i \in rows })
                   /\ 1 <= rec.unique_activities
                   /\ rec.unique_activities <= rec.activity_count

\* Two cases interleaved and out of timestamp order; one of them repeats an
\* activity name over a positive duration.
Wit_C19_TwoCasesRepeatedActivity ==
    /\ Extracted
    /\ Len(training_data) = 2
    /\ Len(InputRows) = 3
    /\ InputRows[1].case # InputRows[2].case
    /\ InputRows[3].case = InputRows[1].case
    /\ InputRows[3].ts < InputRows[1].ts
    /\ training_data[1].activity_count = 2
    /\ training_data[1].unique_activities = 1
    /\ training_data[1].total_duration_days > 0
    /\ training_data[2].total_duration_days = 0

declined == << "d", "e", "c", "l", "i", "n", "e", "d" >>

\* The name contains "reject" or "declined" in any letter case.
MentionsRejection(name) ==
    \/ Contains(Lower(REJECT), Lower(name))
    \/ Contains(declined, Lower(name))

\* C20: for every case has_rejections is true exactly when some event's
\* activity name contains "reject" or "declined" in any letter case, and
\* rejection_count is the number of such events; so has_rejections holds
\* exactly when rejection_count > 0.  The code looks for the upper-case
\* letters REJECT only.
Cex_C20_RejectOrDeclinedAnyCase ==
    Extracted =>
        \A k \in DOMAIN training_data :
            LET rec == training_data[k]
                matching == { i \in RowsOf(rec.case_id) :
                                MentionsRejection(InputRows[i].name) }
            IN  /\ rec.has_rejections <=> matching # {}
                /\ rec.rejection_count = Cardinality(matching)
                /\ rec.has_rejections <=> rec.rejection_count > 0

\* The rows of a case whose activity name contains the word, in any case.
RowsMatching(case_id, word) ==
    { i \in RowsOf(case_id) : Contains(Lower(word), Lower(InputRows[i].name)) }

EarliestOf(rows) == SetMin({ InputRows[i].ts : i \in rows })

\* C21: for every case approval_time_days is present exactly when the case
\* has a submission-matching and an approval-matching event, and then equals
\* the timestamp of the first approval-matching event minus that of the first
\* submission-matching event, first in timestamp order; otherwise it is
\* absent.
Thm_C21_ApprovalTime ==
    Extracted =>
        \A k \in DOMAIN training_data :
            LET rec       == training_data[k]
                submitted == RowsMatching(rec.case_id, SUBMITTED)
                approved  == RowsMatching(rec.case_id, APPROVED)
            IN  IF submitted # {} /\ approved # {}
                THEN rec.approval_time_days
                         = Num(EarliestOf(approved) - EarliestOf(submitted))
                ELSE rec.approval_time_days = None

\* The log lists the approval first, then a late submission, then the early
\* one; the approval time is counted from the early submission.
Wit_C21_FirstInTimestampOrder ==
    /\ Extracted
    /\ Len(InputRows) = 3
    /\ InputCases = {"case 1"}
    /\ RowsMatching("case 1", APPROVED) = {1}
    /\ RowsMatching("case 1", SUBMITTED) = {2, 3}
    /\ InputRows[1].ts = 4 /\ InputRows[2].ts = 4 /\ InputRows[3].ts = 1
    /\ training_data[1].approval_time_days = Num(3)

\* C22: when the input event sequence is empty the feature extractor raises
\* no error and returns an empty result set, a table of zero case records.
\* The code has no guard for an empty log: it asks the frame for its case
\* column, which a frame built from no events does not have.
Cex_C22_EmptyInputEmptyResult ==
    /\ epc \in {"returned", "raised"}
    /\ dataset_name \in DOMAIN datasets
    /\ InputRows = << >>
    => /\ epc = "returned"
       /\ training_data = << >>

-----------------------------------------------------------------------------
(* main of research_labelling.py: the loop over the feature tables of       *)
(* data/processed.  A file name is the sequence of its parts, a file is a   *)
(* CSV table of rows, a CSV file read_csv raises on, or a JSON document of  *)
(* records.                                                                 *)

\* label_dataset as a function of the table: one labeled case per row, in
\* row order.
label_dataset(features_df) ==
    [ i \in DOMAIN features_df |->
        LabeledCase(features_df[i], label_case_inefficiencies(features_df[i])) ]

\* processed_dir.glob("*_features.csv")
Matches(name) ==
    /\ Len(name) >= 2
    /\ SubSeq(name, Len(name) - 1, Len(name)) = << "_features", ".csv" >>

\* What data/processed may hold when main starts: each of two feature tables
\* (absent, unreadable, or 0 .. MaxCases rows, one row per case), and the
\* documents an earlier run left there (their one record has case_id 0).
Directories ==
    LET names  == { << "domestic", "_features", ".csv" >>,
                    << "international", "_features", ".csv" >>,
                    << "domestic", "_features", "_labeled", ".json" >>,
                    << "combined_labeled_dataset", ".json" >> }
        tables(name) ==
            { [ kind |-> "csv",
                rows |-> [ i \in DOMAIN durations |->
                             Features(i, durations[i], name[1] = "international",
                                      NaN, 0, 10) ] ] :
                  durations \in UNION { [ 1 .. n -> {10, 220} ] : n \in 0 .. MaxCases } }
        files(name) ==
            IF Matches(name)
            THEN tables(name) \cup { [ kind |-> "unreadable" ] }
            ELSE { [ kind |-> "json", records |-> << [ case_id |-> 0 ] >> ] }
    IN  UNION { { d \in [ held -> UNION { files(name) : name \in held } ] :
                      \A name \in held : d[name] \in files(name) } :
                held \in SUBSET names }

\* main has found data/processed and is about to iterate the glob, which
\* yields the matching files in an order of the file system's choosing.
InitMain ==
    /\ mpc = "loop"
    /\ store \in Directories
    /\ LET found == { name \in DOMAIN store : Matches(name) }
       IN  pending \in { p \in [ 1 .. Cardinality(found) -> found ] :
                             \A i, j \in DOMAIN p : i # j => p[i] # p[j] }
    /\ all_labeled_data = << >>
    /\ LabelIdle /\ RecIdle /\ ValIdle /\ ExtIdle

\* Mutant: all_labeled_data = labeled_data in place of extend.
ProcessFile_Assign ==
    /\ mpc = "loop"
    /\ pending # << >>
    /\ LET feature_file == Head(pending)
           output_file  == SubSeq(feature_file, 1, Len(feature_file) - 1)
                               \o << "_labeled", ".json" >>
           labeled_rows == label_dataset(store[feature_file].rows)
       IN  IF store[feature_file].kind = "unreadable"
           THEN /\ mpc' = "raised"
                /\ UNCHANGED <<store, pending, all_labeled_data>>
           ELSE /\ store' = DictSet(store, output_file,
                                    [ kind |-> "json", records |-> labeled_rows ])
                /\ IF labeled_rows = << >>
                   THEN /\ mpc' = "raised"
                        /\ UNCHANGED <<pending, all_labeled_data>>
                   ELSE /\ all_labeled_data' = labeled_rows
                        /\ pending' = Tail(pending)
                        /\ UNCHANGED mpc
    /\ UNCHANGED <<labelVars, recVars, valVars, extVars>>

\* One iteration of the for loop (lines 277-299): read_csv, label_dataset,
\* json.dump of the table's document, the statistics, extend.  read_csv may
\* raise; the statistics divide by len(labeled_data), so a table without
\* rows raises ZeroDivisionError after its document is written.  No try
\* encloses the loop: an exception ends main.
ProcessFile ==
    /\ mpc = "loop"
    /\ pending # << >>
    /\ LET feature_file == Head(pending)
           output_file  == SubSeq(feature_file, 1, Len(feature_file) - 1)
                               \o << "_labeled", ".json" >>
           labeled_rows == label_dataset(store[feature_file].rows)
       IN  IF store[feature_file].kind = "unreadable"
           THEN /\ mpc' = "raised"
                /\ UNCHANGED <<store, pending, all_labeled_data>>
           ELSE /\ store' = DictSet(store, output_file,
                                    [ kind |-> "json", records |-> labeled_rows ])
                /\ IF labeled_rows = << >>
                   THEN /\ mpc' = "raised"
                        /\ UNCHANGED <<pending, all_labeled_data>>
                   ELSE /\ all_labeled_data' = all_labeled_data \o labeled_rows
                        /\ pending' = Tail(pending)
                        /\ UNCHANGED mpc
    /\ UNCHANGED <<labelVars, recVars, valVars, extVars>>

\* Lines 301-309, once the glob is exhausted.
SaveCombined ==
    /\ mpc = "loop"
    /\ pending = << >>
    /\ store' = DictSet(store, << "combined_labeled_dataset", ".json" >>,
                        [ kind |-> "json", records |-> all_labeled_data ])
    /\ mpc' = "returned"
    /\ UNCHANGED <<pending, all_labeled_data>>
    /\ UNCHANGED <<labelVars, recVars, valVars, extVars>>

NextMain == ProcessFile \/ SaveCombined

SpecMain == InitMain /\ [][NextMain]_vars

-----------------------------------------------------------------------------
(* Further properties of the labeler *)

\* Place of a finding type in the order the rules are evaluated.
RuleRank(type) ==
    CASE type \in {"excessive_duration_international", "excessive_duration_domestic"} -> 1
      [] type = "supervisor_approval_bottleneck" -> 2
      [] type = "excessive_rejections"           -> 3
      [] type = "process_complexity"             -> 4
      [] OTHER                                   -> 0

InRuleOrder(findings) ==
    /\ \A i \in DOMAIN findings : RuleRank(findings[i].type) > 0
    /\ \A i, j \in DOMAIN findings :
           i < j => RuleRank(findings[i].type) < RuleRank(findings[j].type)

\* C24: the findings of a case are listed in rule-evaluation order (duration,
\* supervisor_approval_bottleneck, excessive_rejections, process_complexity);
\* primary_bottleneck is the type of the first finding and None exactly when
\* there is no finding; the recommendations list has one entry per finding,
\* in the same order.
Thm_C24_RuleOrder ==
    /\ Labelled => InRuleOrder(labels.inefficiencies)
    /\ \A k \in DOMAIN labeled_data :
           LET findings == labeled_data[k].inefficiency_labels.inefficiencies
               recs     == labeled_data[k].optimization_recommendations
               primary  == labeled_data[k].training_label.primary_bottleneck
           IN  /\ InRuleOrder(findings)
               /\ findings # << >> => primary = findings[1].type
               /\ primary = "None" <=> findings = << >>
               /\ Len(recs) = Len(findings)
               /\ \A i \in DOMAIN findings :
                      recs[i].inefficiency_type = findings[i].type

\* A case without a duration finding and with the three others: the
\* supervisor finding is first and names the bottleneck.
Wit_C24_SupervisorFirst ==
    /\ Len(labeled_data) = 1
    /\ LET findings == labeled_data[1].inefficiency_labels.inefficiencies
       IN  /\ Len(findings) = 3
           /\ findings[3].type = "process_complexity"
           /\ labeled_data[1].training_label.primary_bottleneck
                  = "supervisor_approval_bottleneck"
           /\ labeled_data[1].optimization_recommendations[2].inefficiency_type
                  = "excessive_rejections"

\* C27: severity_score is an integer in 0..9; an empty finding list,
\* severity_score = 0, optimization_potential = 0 and has_inefficiencies
\* false are equivalent; a case with findings is bucketed "low" only when its
\* single finding is process_complexity, and "high" needs two findings.
Thm_C27_ScoreAndBuckets ==
    /\ Labelled =>
           /\ labels.severity_score \in 0 .. 9
           /\ labels.inefficiencies = << >> <=> labels.severity_score = 0
           /\ labels.inefficiencies = << >> <=> labels.optimization_potential = 0
    /\ \A k \in DOMAIN labeled_data :
           LET lb == labeled_data[k].inefficiency_labels
               tl == labeled_data[k].training_label
           IN  /\ lb.severity_score \in 0 .. 9
               /\ lb.inefficiencies = << >> <=> lb.severity_score = 0
               /\ lb.inefficiencies = << >> <=> lb.optimization_potential = 0
               /\ lb.inefficiencies = << >> <=> ~tl.has_inefficiencies
               /\ tl.optimization_potential_percent = 0 <=> ~tl.has_inefficiencies
               /\ tl.severity_level = "low" /\ lb.inefficiencies # << >> =>
                      /\ Len(lb.inefficiencies) = 1
                      /\ lb.inefficiencies[1].type = "process_complexity"
               /\ tl.severity_level = "high" => Len(lb.inefficiencies) >= 2

\* The highest score, 9, has been reached, and so has a lone complexity
\* finding in the low bucket (in another run).
Wit_C27_ScoreNine ==
    /\ Len(labeled_data) = 1
    /\ labeled_data[1].inefficiency_labels.severity_score = 9
    /\ labeled_data[1].training_label.severity_level = "high"
    /\ Len(labeled_data[1].inefficiency_labels.inefficiencies) = 4

DormantTypes == { "director_approval_bottleneck", "late_submission" }

\* C28: the labeler produces at most four findings, of pairwise distinct
\* types, never both duration types for one case, and never a finding of
\* type director_approval_bottleneck or late_submission, although thresholds,
\* framework mappings and recommendation texts exist for those two.
Thm_C28_FindingTypes ==
    /\ Labelled =>
           LET findings == labels.inefficiencies
           IN  /\ Len(findings) <= 4
               /\ \A i, j \in DOMAIN findings :
                      i # j => findings[i].type # findings[j].type
               /\ ~ /\ HasFinding(labels, "excessive_duration_domestic")
                    /\ HasFinding(labels, "excessive_duration_international")
               /\ FindingTypes(labels) \cap DormantTypes = {}
    /\ "director_approval_bottleneck" \in DOMAIN thresholds
    /\ "late_submission_days" \in DOMAIN thresholds
    /\ DormantTypes \subseteq DOMAIN framework_mappings
    /\ \A type \in DormantTypes :
           /\ get_recommendation(type) # DefaultRecommendation
           /\ get_expected_improvement(type) # DefaultImprovement

\* An approval time above the director threshold of 45 and a long duration:
\* four findings, none of them the director's.
Wit_C28_AboveDirectorThreshold ==
    /\ Labelled
    /\ GreaterThan(case_features.approval_time_days,
                   thresholds.director_approval_bottleneck)
    /\ case_features.total_duration_days > thresholds.late_submission_days
    /\ Len(labels.inefficiencies) = 4

-----------------------------------------------------------------------------
(* Further properties of the validator *)

\* The environment with the answer of the configuration scan erased.
WithoutScan(e) == [ e EXCEPT !.scan = [ kind |-> "error" ] ]

\* The results document of a run in which the four scored phases met e.
ScoredResults(e) ==
    calculate_overall_score(
        [ InitialResults EXCEPT
            !.infrastructure      = validate_infrastructure(e),
            !.data_validation     = validate_data_completeness(e),
            !.framework_knowledge = validate_framework_knowledge(e),
            !.research_compliance = validate_research_compliance(e) ])

\* C29: the outcome of validate_system_configuration (rows found, rows
\* missing, the scan failing) never changes the overall score, the component
\* scores, the stored results document or the exit code: all of them are what
\* the four other phases alone determine.
Thm_C29_ConfigurationIgnored ==
    /\ vpc \in {"returned", "report", "exit", "exited"} =>
           results = ScoredResults(WithoutScan(env))
    /\ "results.json" \in DOMAIN output_files =>
           output_files["results.json"] = ScoredResults(WithoutScan(env))
    /\ Exited => exit_code = ExitCode(ScoredResults(WithoutScan(env)).overall_score)

\* The scan failed, every other check was good: the run stored its document
\* and exited with 0.
Wit_C29_ScanFailedExitZero ==
    /\ Exited
    /\ env.scan.kind = "error"
    /\ "validation_error" \in DOMAIN config_results
    /\ "results.json" \in DOMAIN output_files
    /\ results.overall_score = 100 * OverallPt
    /\ exit_code = 0

ResearchChecked == "compliance_score" \in DOMAIN results.research_compliance

\* get_object or json.loads raised for one of the documents.
FetchOrParseFailed(sites) ==
    \E i \in DOMAIN sites : env.get_object[sites[i]] \in { Missing, Unparsable }

\* Some statement of the try block raised: a fetch, a parse, or the reading
\* of a document that is no JSON object.
ReadRaised(sites) == \E i \in DOMAIN sites : Failed(env.get_object[sites[i]])

KnowledgeZeroOnFailedFetch ==
    FrameworkChecked /\ FetchOrParseFailed(FrameworkSites) =>
        results.framework_knowledge.knowledge_completeness_score = 0

\* C30 as stated: compliance_score is 0, 50, 75 or 100; it is 0 exactly when
\* the fetch or parse of the benchmark or of the agile document fails, and at
\* least 50 when both succeed, whatever the documents contain;
\* knowledge_completeness_score is 0 whenever one of the four framework
\* fetches fails.
Cex_C30_ZeroOnlyOnFailedFetch ==
    /\ ResearchChecked =>
           LET score == results.research_compliance.compliance_score
           IN  /\ score \in { 0, 50 * Pt, 75 * Pt, 100 * Pt }
               /\ score = 0 <=> FetchOrParseFailed(ResearchSites)
               /\ ~FetchOrParseFailed(ResearchSites) => score >= 50 * Pt
    /\ KnowledgeZeroOnFailedFetch

\* C30 amended: compliance_score is 0, 50, 75 or 100; it is 0 exactly when a
\* statement of the try block raises, be it a fetch, a parse or the reading
\* of a fetched document that is no JSON object, and at least 50 otherwise;
\* knowledge_completeness_score is 0 whenever one of the four framework
\* fetches fails.
Thm_C30_ComplianceScoreValues ==
    /\ ResearchChecked =>
           LET score == results.research_compliance.compliance_score
           IN  /\ score \in { 0, 50 * Pt, 75 * Pt, 100 * Pt }
               /\ score = 0 <=> ReadRaised(ResearchSites)
               /\ ~ReadRaised(ResearchSites) => score >= 50 * Pt
    /\ KnowledgeZeroOnFailedFetch

\* Both documents were fetched and parsed, the benchmark document is an
\* array: the score is 0 and the error is recorded.
Wit_C30_ArrayDocumentScoresZero ==
    /\ ResearchChecked
    /\ ~FetchOrParseFailed(ResearchSites)
    /\ env.get_object.rc_benchmark = NotAnObject
    /\ results.research_compliance.compliance_score = 0
    /\ "validation_error" \in DOMAIN results.research_compliance

AgileQuery == Query("get_object", FrameworkKeys[1])

Earlier(i) == { j \in 1 .. i - 1 : queries[j] = queries[i] }

\* The answer the i-th logged get_object met: the agile document is fetched
\* first by the framework check and then by the research check.
SiteOf(i) ==
    IF queries[i] = AgileQuery
    THEN IF Earlier(i) = {} THEN "fw_agile" ELSE "rc_agile"
    ELSE IF \E k \in DOMAIN FrameworkKeys : FrameworkKeys[k] = queries[i][2]
    THEN FrameworkSites[CHOOSE k \in DOMAIN FrameworkKeys :
                            FrameworkKeys[k] = queries[i][2]]
    ELSE "rc_benchmark"

\* The i-th logged query raised.
QueryFailed(i) ==
    LET op     == queries[i][1]
        target == queries[i][2]
    IN  CASE op = "head_bucket"            -> env.head_bucket = "error"
          [] op = "describe_table"         -> env.describe_table[target] = "error"
          [] op = "list_foundation_models" -> env.list_foundation_models = "error"
          [] op = "head_object"            -> target \notin env.head_object
          [] op = "get_object"             -> env.get_object[SiteOf(i)] = Missing
          [] op = "scan"                   -> env.scan.kind = "error"

\* C26 as stated: within one run of run_full_validation a query that has
\* failed is never issued again later in the run.
Cex_C26_FailedQueryNeverReissued ==
    \A j \in DOMAIN queries : \A i \in Earlier(j) : ~QueryFailed(i)

\* C26 amended: within one run every query is issued at most once, except
\* the fetch of the agile framework document, which the framework check
\* issues once and the research check issues once more, whether or not the
\* first fetch failed; no query is repeated inside one check.
Thm_C26_NoRetries ==
    \A j \in DOMAIN queries :
        /\ Cardinality(Earlier(j)) <= 1
        /\ Earlier(j) # {} =>
               /\ queries[j] = AgileQuery
               /\ "research_compliance" \in Range(phases)
               /\ \A i \in Earlier(j) :
                      i <= Len(InfrastructureQueries) + Len(AllFiles)
                               + Len(FrameworkSites)
               /\ j > Len(InfrastructureQueries) + HeadObjectQueries + 1

\* The framework check's fetch of the agile document failed and the research
\* check fetched the same object again.
Wit_C26_AgileFetchedAgainAfterFailure ==
    /\ Exited
    /\ env.get_object.fw_agile = Missing
    /\ \E j \in DOMAIN queries : \E i \in Earlier(j) :
           queries[j] = AgileQuery /\ QueryFailed(i)

-----------------------------------------------------------------------------
(* Properties of the labeling run *)

FeatureTables == { name \in DOMAIN store : Matches(name) }

\* The name of the labeled document of a feature table, and of the corpus.
LabeledDocument(name) == SubSeq(name, 1, Len(name) - 1) \o << "_labeled", ".json" >>

CombinedCorpus == << "combined_labeled_dataset", ".json" >>

Orders(names) ==
    { p \in [ 1 .. Cardinality(names) -> names ] :
          \A i, j \in DOMAIN p : i # j => p[i] # p[j] }

\* The records of the labeled documents of the tables p[i], p[i+1], ...
RECURSIVE RecordsFrom(_, _)
RecordsFrom(p, i) ==
    IF i > Len(p) THEN << >>
    ELSE store[LabeledDocument(p[i])].records \o RecordsFrom(p, i + 1)

RECURSIVE TotalRows(_)
TotalRows(names) ==
    IF names = {} THEN 0
    ELSE LET name == CHOOSE name \in names : TRUE
         IN  Len(store[name].rows) + TotalRows(names \ {name})

\* C23: after the labeling run completes, each per-dataset labeled document
\* holds exactly one record per input case, in input order, with that case's
\* features, findings, recommendations and training label; the combined
\* corpus is the concatenation of the per-dataset records, its count the sum
\* of theirs; and no output document is read as input: neither output name
\* matches the glob and no record of an earlier run's document appears.
Thm_C23_DocumentsAndCorpus ==
    mpc = "returned" =>
        /\ \A name \in FeatureTables :
               LET rows == store[name].rows
               IN  /\ LabeledDocument(name) \in DOMAIN store
                   /\ ~Matches(LabeledDocument(name))
                   /\ store[LabeledDocument(name)].records =
                          [ i \in DOMAIN rows |->
                              LET lb == label_case_inefficiencies(rows[i])
                              IN  [ case_id             |-> rows[i].case_id,
                                    input_features      |-> rows[i],
                                    inefficiency_labels |-> lb,
                                    optimization_recommendations |->
                                        generate_optimization_recommendations(
                                            lb.inefficiencies),
                                    training_label      |-> TrainingLabel(lb) ] ]
        /\ ~Matches(CombinedCorpus)
        /\ CombinedCorpus \in DOMAIN store
        /\ \E p \in Orders(FeatureTables) :
               store[CombinedCorpus].records = RecordsFrom(p, 1)
        /\ Len(store[CombinedCorpus].records) = TotalRows(FeatureTables)
        /\ \A i \in DOMAIN store[CombinedCorpus].records :
               store[CombinedCorpus].records[i].case_id # 0

\* A completed run over two tables of two rows and one row.
Wit_C23_TwoTablesThreeCases ==
    /\ mpc = "returned"
    /\ Cardinality(FeatureTables) = 2
    /\ \E name \in FeatureTables : Len(store[name].rows) = 1
    /\ \E name \in FeatureTables : Len(store[name].rows) >= 2
    /\ Len(store[CombinedCorpus].records) >= 3

\* The feature tables the loop has finished with.
Processed == { name \in FeatureTables : \A i \in DOMAIN pending : pending[i] # name }

\* The corpus in the store holds every record of the table's document.
Aggregated(name) ==
    /\ CombinedCorpus \in DOMAIN store
    /\ \A i \in DOMAIN store[LabeledDocument(name)].records :
           \E j \in DOMAIN store[CombinedCorpus].records :
               store[CombinedCorpus].records[j] = store[LabeledDocument(name)].records[i]

\* C25: when the labeling run stops with a failure on some feature table, no
\* per-dataset labeled document is left written without the combined corpus
\* that aggregates it.
Cex_C25_NoDocumentWithoutCorpus ==
    mpc = "raised" => \A name \in Processed : Aggregated(name)

=============================================================================
